---- MODULE Spec2Model ----
(***************************************************************************)
(* TwinCLI: the adaptive rate limiter, the token tracker, the conversation *)
(* tracker, the context compressor and the two retrying callers            *)
(* (safe_api_call in repl.py, enhanced_safe_api_call in                    *)
(* tools/context_compression.py).                                          *)
(*                                                                         *)
(* Time is counted in milliseconds, money in 1e-9 dollars.  Texts are      *)
(* tuples of one-character strings, so that substring tests, lower() and   *)
(* the regular expression of the retry-delay hint are computed.            *)
(***************************************************************************)
EXTENDS Integers, Sequences, FiniteSets, TLC

VARIABLES now, rate_limiter, token_tracker, tracker, compressor, sessions,
          call, obs, ncalls, nfails, scenario, startup,
          decision, usage_log, repl

vars == <<now, rate_limiter, token_tracker, tracker, compressor, sessions,
          call, obs, ncalls, nfails, scenario, startup,
                   decision, usage_log, repl>>

(***************************************************************************)
(* Bounds of the model.                                                    *)
(***************************************************************************)
\* the clock reading at construction, far from last_request_time = 0
StartTime == 1000000
\* calls the session loop makes in one behaviour of the session scenario
MaxCalls == 2
\* sends the transport fails in one behaviour of the session scenario
MaxFailures == 1
\* largest max_retries the call scenario passes
MaxRetriesCall == 3
\* the max_retries the long scenario passes
MaxRetriesLong == 9
\* the model stops starting calls after this clock reading
MaxTime == 3000000
\* calls the session loop makes in one behaviour of the repeat scenario
MaxCallsRepeat == 3
\* messages the tracker scenario adds to the tracker
MaxMessages == 3

(***************************************************************************)
(* Texts.                                                                  *)
(***************************************************************************)
S_429 == <<"4","2","9">>
S_quota == <<"q","u","o","t","a">>
S_rate == <<"r","a","t","e">>
S_503 == <<"5","0","3">>
S_502 == <<"5","0","2">>
S_server == <<"s","e","r","v","e","r">>
S_retry_delay == <<"r","e","t","r","y","_","d","e","l","a","y">>
S_seconds == <<"s","e","c","o","n","d","s",":"," ">>

\* error texts the transport raises in the model
E_Quota == <<"4","2","9"," ","Q","u","o","t","a"," ","e","x","c","e","e","d","e","d">>
E_Generate == <<"c","a","n","n","o","t"," ","g","e","n","e","r","a","t","e">>
E_Hinted == <<"4","2","9"," ","r","e","t","r","y","_","d","e","l","a","y"," ","{"," ","s","e","c","o","n","d","s",":"," ","7"," ","}">>
E_TwoHints == <<"Q","U","O","T","A"," ","r","e","t","r","y","_","d","e","l","a","y"," ","s","e","c","o","n","d","s",":"," ","1","2"," ","s","e","c","o","n","d","s",":"," ","3">>
E_BareHint == <<"4","2","9"," ","w","a","i","t"," ","s","e","c","o","n","d","s",":"," ","7">>
E_NoDigits == <<"r","a","t","e"," ","r","e","t","r","y","_","d","e","l","a","y"," ","s","e","c","o","n","d","s",":"," ","s","o","o","n">>
E_Unavailable == <<"5","0","3"," ","S","e","r","v","i","c","e"," ","U","n","a","v","a","i","l","a","b","l","e">>
E_ServerDown == <<"I","n","t","e","r","n","a","l"," ","S","e","r","v","e","r"," ","E","r","r","o","r">>
E_BadGateway == <<"5","0","2"," ","B","a","d"," ","G","a","t","e","w","a","y">>
E_Both == <<"5","0","3"," ","r","a","t","e"," ","e","x","c","e","e","d","e","d">>
E_Invalid == <<"4","0","0"," ","i","n","v","a","l","i","d"," ","a","r","g","u","m","e","n","t">>
E_Timeout == <<"d","e","a","d","l","i","n","e"," ","e","x","c","e","e","d","e","d">>

ErrTextsCall ==
    { E_Quota, E_Generate, E_Hinted, E_TwoHints, E_BareHint, E_NoDigits,
      E_Unavailable, E_ServerDown, E_BadGateway, E_Both, E_Invalid, E_Timeout }

ErrTextsFew == { E_Quota, E_Unavailable, E_Invalid }

UpperCase == <<"A","B","C","D","E","F","G","H","I","J","K","L","M",
               "N","O","P","Q","R","S","T","U","V","W","X","Y","Z">>
LowerCase == <<"a","b","c","d","e","f","g","h","i","j","k","l","m",
               "n","o","p","q","r","s","t","u","v","w","x","y","z">>
DigitChars == <<"0","1","2","3","4","5","6","7","8","9">>

\* str.lower() on one character
LowerChar(c) ==
    IF \E i \in 1..Len(UpperCase) : UpperCase[i] = c
    THEN LowerCase[CHOOSE i \in 1..Len(UpperCase) : UpperCase[i] = c]
    ELSE c

\* str.lower()
Lower(s) == [i \in 1..Len(s) |-> LowerChar(s[i])]

\* the `in` operator on strings: p occurs in s
Contains(s, p) ==
    \E i \in 1..(Len(s) - Len(p) + 1) : SubSeq(s, i, i + Len(p) - 1) = p

IsDigit(c) == \E d \in 1..Len(DigitChars) : DigitChars[d] = c

DigitVal(c) == (CHOOSE d \in 1..Len(DigitChars) : DigitChars[d] = c) - 1

\* int() of a run of decimal digits
RECURSIVE ParseInt(_)
ParseInt(ds) ==
    IF ds = <<>> THEN 0
    ELSE 10 * ParseInt(SubSeq(ds, 1, Len(ds) - 1)) + DigitVal(ds[Len(ds)])

\* the pattern 'seconds: (\d+)' matches at position i
HintAt(s, i) ==
    /\ i + Len(S_seconds) <= Len(s)
    /\ SubSeq(s, i, i + Len(S_seconds) - 1) = S_seconds
    /\ IsDigit(s[i + Len(S_seconds)])

\* re.search(r'seconds: (\d+)', s): the leftmost match exists
HasHint(s) == \E i \in 1..Len(s) : HintAt(s, i)

\* int(delay_match.group(1)) of the leftmost match, the digits taken greedily
HintValue(s) ==
    LET i == CHOOSE k \in 1..Len(s) :
                 HintAt(s, k) /\ \A m \in 1..(k - 1) : ~HintAt(s, m)
        first == i + Len(S_seconds)
        last == CHOOSE j \in first..Len(s) :
                    /\ \A m \in first..j : IsDigit(s[m])
                    /\ (j = Len(s) \/ ~IsDigit(s[j + 1]))
    IN  ParseInt(SubSeq(s, first, last))

Min(a, b) == IF a < b THEN a ELSE b
Max(a, b) == IF a > b THEN a ELSE b

RECURSIVE Pow2(_)
Pow2(n) == IF n = 0 THEN 1 ELSE 2 * Pow2(n - 1)

(***************************************************************************)
(* RateLimiter (repl.py).                                                  *)
(***************************************************************************)
max_requests_per_minute == 60
max_tokens_per_minute == 1000000
\* the 60 seconds of the sliding window, in milliseconds
WindowMs == 60000

\* RateLimiter.__init__
NewRateLimiter ==
    [ request_times |-> <<>>, token_usage_history |-> <<>>, last_request_time |-> 0 ]

\* a * b = q * c + r with 0 <= r < c, by doubling, so that no intermediate
\* value leaves 32 bits when the quotient fits
RECURSIVE MulDiv(_, _, _)
MulDiv(a, b, c) ==
    IF b = 0 THEN [ q |-> 0, r |-> 0 ]
    ELSE LET h == MulDiv(a, b \div 2, c)
             x == 2 * h.r + (b % 2) * (a % c)
         IN  [ q |-> 2 * h.q + (b % 2) * (a \div c) + x \div c, r |-> x % c ]

\* the last segment in milliseconds, 8000 * over^2 / max_limit^2 rounded
\* down, where over / max_limit = (usage_ratio - 0.90) / 0.10
Steep(over, max_limit) ==
    LET s1 == MulDiv(over, over, max_limit)
        s2 == MulDiv(s1.q, 8000, max_limit)
        s3 == MulDiv(s1.r, 8000, max_limit)
    IN  s2.q + (s2.r + s3.q) \div max_limit

\* _calculate_adaptive_interval with the first delay at 60% of the limit
CalculateAdaptiveIntervalEarly(current_usage, max_limit) ==
    IF 100 * current_usage < 60 * max_limit THEN 0
    ELSE IF 100 * current_usage < 80 * max_limit
         THEN MulDiv(100 * current_usage - 60 * max_limit, 1000, 40 * max_limit).q
    ELSE IF 100 * current_usage < 90 * max_limit
         THEN 500 + MulDiv(10 * current_usage - 8 * max_limit, 1500, max_limit).q
    ELSE 2000 + Steep(10 * current_usage - 9 * max_limit, max_limit)

\* _calculate_adaptive_interval whose third segment starts from zero
CalculateAdaptiveIntervalJump(current_usage, max_limit) ==
    IF 100 * current_usage < 66 * max_limit THEN 0
    ELSE IF 100 * current_usage < 80 * max_limit
         THEN MulDiv(100 * current_usage - 66 * max_limit, 1000, 28 * max_limit).q
    ELSE IF 100 * current_usage < 90 * max_limit
         THEN MulDiv(10 * current_usage - 8 * max_limit, 1500, max_limit).q
    ELSE 2000 + Steep(10 * current_usage - 9 * max_limit, max_limit)

\* _calculate_adaptive_interval, the result in whole milliseconds, rounded
\* down.  With r = current_usage / max_limit:
\*   (r - 0.66) / 0.14 * 0.5 seconds = 1000 * (100 r - 66) / 28 ms,
\*   0.5 + (r - 0.80) / 0.10 * 1.5 seconds = 500 + 1500 * (10 r - 8) ms,
\*   2.0 + ((r - 0.90) / 0.10)^2 * 8.0 seconds = 2000 + 8000 * (10 r - 9)^2 ms.
CalculateAdaptiveInterval(current_usage, max_limit) ==
    IF 100 * current_usage < 66 * max_limit THEN 0
    ELSE IF 100 * current_usage < 80 * max_limit
         THEN MulDiv(100 * current_usage - 66 * max_limit, 1000, 28 * max_limit).q
    ELSE IF 100 * current_usage < 90 * max_limit
         THEN 500 + MulDiv(10 * current_usage - 8 * max_limit, 1500, max_limit).q
    ELSE 2000 + Steep(10 * current_usage - 9 * max_limit, max_limit)

\* the purge of request_times with an entry exactly 60 seconds old kept
RECURSIVE KeepTimesInclusive(_, _)
KeepTimesInclusive(ts, cutoff) ==
    IF ts = <<>> THEN <<>>
    ELSE IF Head(ts) >= cutoff THEN <<Head(ts)>> \o KeepTimesInclusive(Tail(ts), cutoff)
         ELSE KeepTimesInclusive(Tail(ts), cutoff)

\* the list comprehensions of should_rate_limit that drop old entries
RECURSIVE KeepTimes(_, _)
KeepTimes(ts, cutoff) ==
    IF ts = <<>> THEN <<>>
    ELSE IF Head(ts) > cutoff THEN <<Head(ts)>> \o KeepTimes(Tail(ts), cutoff)
         ELSE KeepTimes(Tail(ts), cutoff)

RECURSIVE KeepTokens(_, _)
KeepTokens(h, cutoff) ==
    IF h = <<>> THEN <<>>
    ELSE IF Head(h)[1] > cutoff THEN <<Head(h)>> \o KeepTokens(Tail(h), cutoff)
         ELSE KeepTokens(Tail(h), cutoff)

RECURSIVE SumTokens(_)
SumTokens(h) == IF h = <<>> THEN 0 ELSE Head(h)[2] + SumTokens(Tail(h))

\* should_rate_limit that takes the smaller of the two delays
ShouldRateLimitMin(rl, t, estimated_tokens) ==
    LET cutoff == t - WindowMs
        purged == [ rl EXCEPT !.request_times = KeepTimes(@, cutoff),
                              !.token_usage_history = KeepTokens(@, cutoff) ]
        current_requests == Len(purged.request_times)
        recent_tokens == SumTokens(purged.token_usage_history)
        projected_tokens == recent_tokens + estimated_tokens
        request_wait == CalculateAdaptiveInterval(current_requests, max_requests_per_minute)
        token_wait == CalculateAdaptiveInterval(projected_tokens, max_tokens_per_minute)
        required_wait == Min(request_wait, token_wait)
        time_since_last == t - rl.last_request_time
    IN  IF required_wait > 0 /\ time_since_last < required_wait
        THEN [ rl |-> purged, limit |-> TRUE,
               reason |-> IF token_wait > request_wait THEN "tokens" ELSE "requests",
               wait |-> required_wait - time_since_last ]
        ELSE [ rl |-> purged, limit |-> FALSE, reason |-> "none", wait |-> 0 ]

\* should_rate_limit that notes the time of the check as a request time
ShouldRateLimitTouches(rl, t, estimated_tokens) ==
    LET cutoff == t - WindowMs
        purged == [ rl EXCEPT !.request_times = KeepTimes(@, cutoff),
                              !.token_usage_history = KeepTokens(@, cutoff),
                              !.last_request_time = t ]
        current_requests == Len(purged.request_times)
        recent_tokens == SumTokens(purged.token_usage_history)
        projected_tokens == recent_tokens + estimated_tokens
        request_wait == CalculateAdaptiveInterval(current_requests, max_requests_per_minute)
        token_wait == CalculateAdaptiveInterval(projected_tokens, max_tokens_per_minute)
        required_wait == Max(request_wait, token_wait)
        time_since_last == t - rl.last_request_time
    IN  IF required_wait > 0 /\ time_since_last < required_wait
        THEN [ rl |-> purged, limit |-> TRUE,
               reason |-> IF token_wait > request_wait THEN "tokens" ELSE "requests",
               wait |-> required_wait - time_since_last ]
        ELSE [ rl |-> purged, limit |-> FALSE, reason |-> "none", wait |-> 0 ]

\* should_rate_limit: the limiter after the purge and the decision
\* (should_limit, reason, wait_time); the reason is kept as the name of the
\* quantity it reports
ShouldRateLimit(rl, t, estimated_tokens) ==
    LET cutoff == t - WindowMs
        purged == [ rl EXCEPT !.request_times = KeepTimes(@, cutoff),
                              !.token_usage_history = KeepTokens(@, cutoff) ]
        current_requests == Len(purged.request_times)
        recent_tokens == SumTokens(purged.token_usage_history)
        projected_tokens == recent_tokens + estimated_tokens
        request_wait == CalculateAdaptiveInterval(current_requests, max_requests_per_minute)
        token_wait == CalculateAdaptiveInterval(projected_tokens, max_tokens_per_minute)
        required_wait == Max(request_wait, token_wait)
        time_since_last == t - rl.last_request_time
    IN  IF required_wait > 0 /\ time_since_last < required_wait
        THEN [ rl |-> purged, limit |-> TRUE,
               reason |-> IF token_wait > request_wait THEN "tokens" ELSE "requests",
               wait |-> required_wait - time_since_last ]
        ELSE [ rl |-> purged, limit |-> FALSE, reason |-> "none", wait |-> 0 ]

\* record_request
RecordRequest(rl, t, token_count) ==
    [ request_times |-> Append(rl.request_times, t),
      token_usage_history |-> Append(rl.token_usage_history, <<t, token_count>>),
      last_request_time |-> t ]

\* wait_if_needed that sleeps half of the time it was told
WaitIfNeededResultHalf(rl, t) ==
    LET d == ShouldRateLimit(rl, t, 0)
    IN  [ rl |-> d.rl, slept |-> IF d.limit THEN d.wait \div 2 ELSE 0, limited |-> d.limit ]

\* wait_if_needed: the limiter after the check and the time slept
WaitIfNeededResult(rl, t) ==
    LET d == ShouldRateLimit(rl, t, 0)
    IN  [ rl |-> d.rl, slept |-> IF d.limit THEN d.wait ELSE 0, limited |-> d.limit ]

(***************************************************************************)
(* TokenTracker (repl.py).                                                 *)
(***************************************************************************)
\* PRICING of the default model, in thousandths of a dollar per million
\* tokens, which is 1e-9 dollars per token
input_tokens_per_million == 75
output_tokens_per_million == 300

\* Python's None where a count is expected
None == -1

\* `x or 0`
OrZero(x) == IF x = None \/ x = 0 THEN 0 ELSE x

NoMeta == [ present |-> FALSE, prompt_token_count |-> None, candidates_token_count |-> None ]

\* TokenTracker.__init__ (session_start is the clock reading)
NewTokenTracker ==
    [ total_input_tokens |-> 0, total_output_tokens |-> 0, total_cost |-> 0,
      conversation_count |-> 0 ]

NoUsage == [ some |-> FALSE, input_tokens |-> 0, output_tokens |-> 0,
             total_tokens |-> 0, total_cost |-> 0 ]

\* track_usage that does not tell the rate limiter
TrackUsageNoRecord(tt, rl, response, t) ==
    IF ~response.usage_metadata.present
    THEN [ tt |-> tt, rl |-> rl, info |-> NoUsage ]
    ELSE LET input_tokens == OrZero(response.usage_metadata.prompt_token_count)
             output_tokens == OrZero(response.usage_metadata.candidates_token_count)
             total_cost == input_tokens * input_tokens_per_million
                           + output_tokens * output_tokens_per_million
         IN  [ tt |-> [ total_input_tokens |-> tt.total_input_tokens + input_tokens,
                        total_output_tokens |-> tt.total_output_tokens + output_tokens,
                        total_cost |-> tt.total_cost + total_cost,
                        conversation_count |-> tt.conversation_count + 1 ],
               rl |-> rl,
               info |-> [ some |-> TRUE, input_tokens |-> input_tokens,
                          output_tokens |-> output_tokens,
                          total_tokens |-> input_tokens + output_tokens,
                          total_cost |-> total_cost ] ]

\* track_usage that counts the conversation before it looks at the metadata
TrackUsageAlwaysCounts(tt, rl, response, t) ==
    LET counted == [ tt EXCEPT !.conversation_count = @ + 1 ]
    IN  IF ~response.usage_metadata.present
        THEN [ tt |-> counted, rl |-> rl, info |-> NoUsage ]
        ELSE LET input_tokens == OrZero(response.usage_metadata.prompt_token_count)
                 output_tokens == OrZero(response.usage_metadata.candidates_token_count)
                 total_cost == input_tokens * input_tokens_per_million
                               + output_tokens * output_tokens_per_million
             IN  [ tt |-> [ counted EXCEPT
                              !.total_input_tokens = @ + input_tokens,
                              !.total_output_tokens = @ + output_tokens,
                              !.total_cost = @ + total_cost ],
                   rl |-> RecordRequest(rl, t, input_tokens + output_tokens),
                   info |-> [ some |-> TRUE, input_tokens |-> input_tokens,
                              output_tokens |-> output_tokens,
                              total_tokens |-> input_tokens + output_tokens,
                              total_cost |-> total_cost ] ]

\* the model name start_repl uses, the only key of PRICING
DefaultModel == "gemini-2.5-flash-preview-05-20"

PRICING ==
    [ model_name \in { DefaultModel } |->
        [ input_tokens_per_million |-> input_tokens_per_million,
          output_tokens_per_million |-> output_tokens_per_million ] ]

\* a lookup of PRICING that prices an unknown model at nothing
PricingForStrict(model_name) ==
    IF model_name \in DOMAIN PRICING THEN PRICING[model_name]
    ELSE [ input_tokens_per_million |-> 0, output_tokens_per_million |-> 0 ]

\* PRICING.get(model_name, PRICING["gemini-2.5-flash-preview-05-20"])
PricingFor(model_name) ==
    IF model_name \in DOMAIN PRICING THEN PRICING[model_name]
    ELSE PRICING[DefaultModel]

\* input_cost, output_cost and total_cost of track_usage: tokens / 1e6 times
\* the price per million, in 1e-9 dollars with the price in thousandths
Cost(input_tokens, output_tokens, pricing) ==
    LET input_cost == input_tokens * pricing.input_tokens_per_million
        output_cost == output_tokens * pricing.output_tokens_per_million
    IN  [ input_cost |-> input_cost, output_cost |-> output_cost,
          total_cost |-> input_cost + output_cost ]

\* track_usage(response, model_name): the tracker, the limiter and the
\* record returned
TrackUsageModel(tt, rl, response, t, model_name) ==
    IF ~response.usage_metadata.present
    THEN [ tt |-> tt, rl |-> rl, info |-> NoUsage ]
    ELSE LET input_tokens == OrZero(response.usage_metadata.prompt_token_count)
             output_tokens == OrZero(response.usage_metadata.candidates_token_count)
             pricing == PricingFor(model_name)
             total_cost == Cost(input_tokens, output_tokens, pricing).total_cost
         IN  [ tt |-> [ total_input_tokens |-> tt.total_input_tokens + input_tokens,
                        total_output_tokens |-> tt.total_output_tokens + output_tokens,
                        total_cost |-> tt.total_cost + total_cost,
                        conversation_count |-> tt.conversation_count + 1 ],
               rl |-> RecordRequest(rl, t, input_tokens + output_tokens),
               info |-> [ some |-> TRUE, input_tokens |-> input_tokens,
                          output_tokens |-> output_tokens,
                          total_tokens |-> input_tokens + output_tokens,
                          total_cost |-> total_cost ] ]

\* track_usage(response), the model name left at its default
TrackUsage(tt, rl, response, t) ==
    TrackUsageModel(tt, rl, response, t, DefaultModel)

(***************************************************************************)
(* exponential_backoff and the error classes of safe_api_call.             *)
(***************************************************************************)
\* base_delay and max_delay of exponential_backoff, in milliseconds
base_delay == 1000
max_delay == 60000
\* the default retry delay of the rate-limit path, in seconds
default_retry_delay == 60

\* random.uniform(0, 1) in milliseconds: a value of [0, 1)
Jitters == {0, 999}

\* exponential_backoff with the cap forgotten
ExponentialBackoffUncapped(attempt, jitter) == base_delay * Pow2(attempt) + jitter

\* exponential_backoff(attempt) with the jitter drawn
ExponentialBackoff(attempt, jitter) ==
    Min(base_delay * Pow2(attempt) + jitter, max_delay)

\* the first test of the except clause
IsRateLimitError(error_str) ==
    \/ Contains(error_str, S_429)
    \/ Contains(Lower(error_str), S_quota)
    \/ Contains(Lower(error_str), S_rate)

\* the elif test of the except clause
IsServerError(error_str) ==
    \/ Contains(error_str, S_503)
    \/ Contains(error_str, S_502)
    \/ Contains(Lower(error_str), S_server)

\* retry_delay with the hint parsed wherever the pattern matches
RetryDelayUnguarded(error_str) ==
    IF HasHint(error_str) THEN HintValue(error_str) ELSE default_retry_delay

\* retry_delay of the rate-limit path, in seconds
RetryDelay(error_str) ==
    IF Contains(error_str, S_retry_delay) /\ HasHint(error_str)
    THEN HintValue(error_str)
    ELSE default_retry_delay

\* the three facts the except clause takes from an error text, computed once
\* per text
ErrorFacts ==
    [ e \in ErrTextsCall \cup ErrTextsFew |->
        [ rate_limit |-> IsRateLimitError(e), server |-> IsServerError(e),
          retry_delay |-> RetryDelay(e) ] ]

NoText == <<>>
NoError == [ msg |-> "none", attempts |-> 0, text |-> NoText ]

\* the except clause with every error retried by backoff
HandleErrorRetriesAll(error_str, attempt, max_retries, jitter) ==
    IF attempt < max_retries - 1
    THEN [ next |-> "sleep", class |-> "server",
           delay |-> ExponentialBackoff(attempt, jitter), error |-> NoError ]
    ELSE [ next |-> "return", class |-> "server", delay |-> 0,
           error |-> [ msg |-> "Server error after N attempts",
                       attempts |-> max_retries, text |-> error_str ] ]

\* the except clause with the last attempt sleeping too
HandleErrorOffByOne(error_str, attempt, max_retries, jitter) ==
    IF ErrorFacts[error_str].rate_limit
    THEN [ next |-> "sleep", class |-> "rate_limit",
           delay |-> ErrorFacts[error_str].retry_delay * 1000, error |-> NoError ]
    ELSE IF ErrorFacts[error_str].server
    THEN [ next |-> "sleep", class |-> "server",
           delay |-> ExponentialBackoff(attempt, jitter), error |-> NoError ]
    ELSE [ next |-> "return", class |-> "other", delay |-> 0,
           error |-> [ msg |-> "API error", attempts |-> 0, text |-> error_str ] ]

\* the except clause with server errors given up at once
HandleErrorNoServerRetry(error_str, attempt, max_retries, jitter) ==
    IF ErrorFacts[error_str].rate_limit
    THEN IF attempt < max_retries - 1
         THEN [ next |-> "sleep", class |-> "rate_limit",
                delay |-> ErrorFacts[error_str].retry_delay * 1000, error |-> NoError ]
         ELSE [ next |-> "return", class |-> "rate_limit", delay |-> 0,
                error |-> [ msg |-> "Rate limit exceeded after N attempts",
                            attempts |-> max_retries, text |-> NoText ] ]
    ELSE IF ErrorFacts[error_str].server
    THEN [ next |-> "return", class |-> "server", delay |-> 0,
           error |-> [ msg |-> "Server error after N attempts",
                       attempts |-> max_retries, text |-> error_str ] ]
    ELSE [ next |-> "return", class |-> "other", delay |-> 0,
           error |-> [ msg |-> "API error", attempts |-> 0, text |-> error_str ] ]

\* the except clause of safe_api_call: what the loop does next
HandleError(error_str, attempt, max_retries, jitter) ==
    IF ErrorFacts[error_str].rate_limit
    THEN IF attempt < max_retries - 1
         THEN [ next |-> "sleep", class |-> "rate_limit",
                delay |-> ErrorFacts[error_str].retry_delay * 1000, error |-> NoError ]
         ELSE [ next |-> "return", class |-> "rate_limit", delay |-> 0,
                error |-> [ msg |-> "Rate limit exceeded after N attempts",
                            attempts |-> max_retries, text |-> NoText ] ]
    ELSE IF ErrorFacts[error_str].server
    THEN IF attempt < max_retries - 1
         THEN [ next |-> "sleep", class |-> "server",
                delay |-> ExponentialBackoff(attempt, jitter), error |-> NoError ]
         ELSE [ next |-> "return", class |-> "server", delay |-> 0,
                error |-> [ msg |-> "Server error after N attempts",
                            attempts |-> max_retries, text |-> error_str ] ]
    ELSE [ next |-> "return", class |-> "other", delay |-> 0,
           error |-> [ msg |-> "API error", attempts |-> 0, text |-> error_str ] ]

(***************************************************************************)
(* Texts that are only measured: a kind, an argument and a length.         *)
(***************************************************************************)
Text(kind, arg, len) == [ kind |-> kind, arg |-> arg, len |-> len ]
NoGoal == Text("none", 0, 0)

RECURSIVE DigitCount(_)
DigitCount(n) == IF n < 10 THEN 1 ELSE 1 + DigitCount(n \div 10)

\* len(f"{n:,}")
CommaLen(n) == DigitCount(n) + (DigitCount(n) - 1) \div 3

\* len("Conversation compressed. Previous context: ") and len(" tokens")
CompressedPrefixLen == 43
CompressedSuffixLen == 7

\* f"Conversation compressed. Previous context: {old_tokens:,} tokens"
CompressedNote(old_tokens) ==
    Text("compressed", old_tokens,
         CompressedPrefixLen + CommaLen(old_tokens) + CompressedSuffixLen)

(***************************************************************************)
(* ConversationTracker (context_compression.py).                           *)
(***************************************************************************)
\* the default threshold of should_compress
DefaultThreshold == 400000

\* ConversationTracker.__init__
NewTracker == [ messages |-> <<>>, total_chars |-> 0, actual_tokens_used |-> 0 ]

\* add_message
AddMessage(tr, role, content, token_count) ==
    [ messages |-> Append(tr.messages,
                          [ role |-> role, content |-> content,
                            char_count |-> content.len, token_count |-> token_count ]),
      total_chars |-> tr.total_chars + content.len,
      actual_tokens_used |-> IF token_count > 0
                             THEN tr.actual_tokens_used + token_count
                             ELSE tr.actual_tokens_used ]

\* get_context_estimate
GetContextEstimate(tr) ==
    IF tr.actual_tokens_used > 0 THEN tr.actual_tokens_used ELSE tr.total_chars \div 3

\* should_compress with the threshold itself counted as over it
ShouldCompressInclusive(tr, threshold) == GetContextEstimate(tr) >= threshold

\* should_compress
ShouldCompress(tr, threshold) == GetContextEstimate(tr) > threshold

\* the goal enhanced_safe_api_call takes from the last ten messages
GoalMinLen == 20
GoalMaxLen == 200
GoalLookback == 10
EllipsisLen == 3

GoalOf(content) ==
    IF content.len > GoalMaxLen
    THEN Text("truncated", content.arg, GoalMaxLen + EllipsisLen)
    ELSE content

ExtractUserGoal(messages) ==
    LET lo == Max(1, Len(messages) - GoalLookback + 1)
        hits == { i \in lo..Len(messages) :
                    messages[i].role = "user" /\ messages[i].content.len > GoalMinLen }
    IN  IF hits = {} THEN NoGoal
        ELSE GoalOf(messages[CHOOSE i \in hits : \A j \in hits : j <= i].content)

(***************************************************************************)
(* ContextCompressor (context_compression.py).                             *)
(*                                                                         *)
(* A value of the parsed summary is a type tag and its items: the entries  *)
(* of a list, the characters of a string, the pairs of a dict, the one     *)
(* number of a num.  "missing" is a key the object does not have.          *)
(***************************************************************************)
JV(t, items) == [ t |-> t, items |-> items ]
Missing == JV("missing", <<>>)
JNull == JV("null", <<>>)
EmptyList == JV("list", <<>>)
EmptyDict == JV("dict", <<>>)
EmptyStr == JV("str", <<>>)

\* Python truthiness of a parsed value
Truthy(v) ==
    CASE v.t = "null" -> FALSE
      [] v.t = "missing" -> FALSE
      [] v.t = "num" -> v.items # <<0>>
      [] OTHER -> v.items # <<>>

\* dict.get(key, default)
Get(v, default) == IF v.t = "missing" THEN default ELSE v

\* `x if x is not None else default` of __post_init__
PostInit(v, default) == IF v.t = "null" THEN default ELSE v

EmptyObject ==
    [ user_goal |-> Missing, current_task_plan |-> Missing, completed_tasks |-> Missing,
      key_discoveries |-> Missing, active_context |-> Missing,
      tool_results_summary |-> Missing, current_step |-> Missing, next_actions |-> Missing ]

\* a goal: where it comes from, the value the summary gave, the caller's text
Goal(src, v, text) == [ src |-> src, v |-> v, text |-> text ]

\* ConversationState(...) with __post_init__ applied
ConversationState(session_id, user_goal, plan, tasks, finds, context, tools, step, actions) ==
    [ session_id |-> session_id,
      user_goal |-> user_goal,
      current_task_plan |-> plan,
      completed_tasks |-> PostInit(tasks, EmptyList),
      key_discoveries |-> PostInit(finds, EmptyList),
      active_context |-> PostInit(context, EmptyList),
      tool_results_summary |-> PostInit(tools, EmptyDict),
      current_step |-> step,
      next_actions |-> PostInit(actions, EmptyList) ]

\* f"session_{int(time.time())}"
SessionId(t) == t \div 1000

\* the state of the except clause of extract_conversation_state
FallbackState(user_goal, t) ==
    ConversationState(SessionId(t),
                      IF user_goal.kind = "none"
                      THEN Goal("continue", Missing, NoGoal)
                      ELSE Goal("caller", Missing, user_goal),
                      JNull, JNull, JNull, JNull, JNull,
                      Goal("resuming", Missing, NoGoal), JNull)

\* the try body of extract_conversation_state.  summary is what the
\* summarization call gave: send_message raises ("call_error"), json.loads
\* raises ("unparseable"), the parsed value has no .get ("non_object"), or it
\* is a dict ("object")
ExtractBody(summary, user_goal, t) ==
    IF summary.kind = "object"
    THEN LET d == summary.obj
         IN  [ raised |-> FALSE,
               state |->
                 ConversationState(
                   SessionId(t),
                   IF d.user_goal.t # "missing" THEN Goal("summary", d.user_goal, NoGoal)
                   ELSE IF user_goal.kind = "none" THEN Goal("unknown", Missing, NoGoal)
                   ELSE Goal("caller", Missing, user_goal),
                   Get(d.current_task_plan, JNull),
                   Get(d.completed_tasks, EmptyList),
                   Get(d.key_discoveries, EmptyList),
                   Get(d.active_context, EmptyList),
                   Get(d.tool_results_summary, EmptyDict),
                   IF d.current_step.t # "missing"
                   THEN Goal("summary", d.current_step, NoGoal)
                   ELSE Goal("empty", Missing, NoGoal),
                   Get(d.next_actions, EmptyList)) ]
    ELSE [ raised |-> TRUE, state |-> FallbackState(user_goal, t) ]

\* extract_conversation_state without its except clause
ExtractConversationStateUncaught(summary, user_goal, t) == ExtractBody(summary, user_goal, t)

\* extract_conversation_state: the try body, and the fallback of the except
\* clause when the body raises
ExtractConversationState(summary, user_goal, t) ==
    LET body == ExtractBody(summary, user_goal, t)
    IN  IF body.raised
        THEN [ raised |-> FALSE, state |-> FallbackState(user_goal, t) ]
        ELSE body

\* the minimal state of the except clause of compress_and_restart
MinimalState(user_goal, t) ==
    ConversationState(SessionId(t),
                      IF user_goal.kind = "none"
                      THEN Goal("continue", Missing, NoGoal)
                      ELSE Goal("caller", Missing, user_goal),
                      JNull, JNull, JNull, JNull, JNull,
                      Goal("empty", Missing, NoGoal), JNull)

\* the caps of create_compressed_prompt
TaskCap == 5
DiscoveryCap == 5
ContextCap == 3
ActionCap == 3

\* seq[:n]
Take(items, n) == SubSeq(items, 1, Min(n, Len(items)))

\* v[:n] raises unless v is a list or a string
SliceRaises(v) == Truthy(v) /\ v.t \notin {"list", "str"}

\* v.get(...) and v.items() raise unless v is a dict
DictUseRaises(v) == Truthy(v) /\ v.t # "dict"

Rendered(v, n) == IF Truthy(v) THEN Take(v.items, n) ELSE <<>>

NoPrompt ==
    [ kind |-> "base", session_id |-> 0, user_goal |-> Goal("none", Missing, NoGoal),
      current_step |-> Goal("none", Missing, NoGoal), kanban |-> NoGoal,
      plan |-> JNull, completed |-> <<>>, discoveries |-> <<>>, tools |-> <<>>,
      active |-> <<>>, next |-> <<>>, number |-> 0 ]

\* create_compressed_prompt: the prompt, or the exception it raises
CreateCompressedPrompt(state, kanban_state, compression_count) ==
    IF \/ DictUseRaises(state.current_task_plan)
       \/ SliceRaises(state.completed_tasks)
       \/ SliceRaises(state.key_discoveries)
       \/ DictUseRaises(state.tool_results_summary)
       \/ SliceRaises(state.active_context)
       \/ SliceRaises(state.next_actions)
    THEN [ raised |-> TRUE, prompt |-> NoPrompt ]
    ELSE [ raised |-> FALSE,
           prompt |->
             [ kind |-> "compressed",
               session_id |-> state.session_id,
               user_goal |-> state.user_goal,
               current_step |-> state.current_step,
               kanban |-> IF kanban_state.len > 0 THEN kanban_state ELSE NoGoal,
               plan |-> IF Truthy(state.current_task_plan)
                        THEN state.current_task_plan ELSE JNull,
               completed |-> Rendered(state.completed_tasks, TaskCap),
               discoveries |-> Rendered(state.key_discoveries, DiscoveryCap),
               tools |-> IF Truthy(state.tool_results_summary)
                         THEN state.tool_results_summary.items ELSE <<>>,
               active |-> Rendered(state.active_context, ContextCap),
               next |-> Rendered(state.next_actions, ActionCap),
               number |-> compression_count + 1 ] ]

\* ContextCompressor.__init__
NoState == [ some |-> FALSE, state |-> FallbackState(NoGoal, 0) ]
NewCompressor == [ compression_count |-> 0, current_state |-> NoState ]

\* a chat session: the model it was started from and what was sent to it
Session(system_instruction, tools, generation_config, safety_settings) ==
    [ system_instruction |-> system_instruction, tools |-> tools,
      generation_config |-> generation_config, safety_settings |-> safety_settings,
      nsent |-> 0, last |-> NoGoal ]

\* the length of the board display_current_plan returns in the model
BoardLen == 120

\* the kanban_state compress_and_restart gets from the dispatcher
KanbanState(kanban) ==
    CASE kanban = "board" -> Text("board", 0, BoardLen)
      [] kanban = "empty_board" -> Text("board", 0, 0)
      [] OTHER -> NoGoal

\* compress_and_restart editing the session it was given instead of opening
\* a new one
CompressAndRestartInPlace(comp, sess, chat, user_goal, kanban, summary, created, t) ==
    LET extract == ExtractConversationState(summary, user_goal, t)
        state == IF extract.raised THEN MinimalState(user_goal, t) ELSE extract.state
        made == CreateCompressedPrompt(state, KanbanState(kanban), comp.compression_count)
        cause == IF made.raised THEN "create_compressed_prompt"
                 ELSE IF ~created THEN "GenerativeModel"
                 ELSE "none"
    IN  [ raised |-> cause # "none", cause |-> cause, extract |-> extract,
          compressor |-> IF cause # "none" THEN comp
                         ELSE [ compression_count |-> comp.compression_count + 1,
                                current_state |-> [ some |-> TRUE, state |-> state ] ],
          sessions |-> IF cause # "none" THEN sess
                       ELSE [ sess EXCEPT ![chat].system_instruction = made.prompt ],
          new_chat |-> IF cause # "none" THEN 0 ELSE chat,
          state |-> state ]

\* compress_and_restart with the counter left as it was
CompressAndRestartNoIncrement(comp, sess, chat, user_goal, kanban, summary, created, t) ==
    LET extract == ExtractConversationState(summary, user_goal, t)
        state == IF extract.raised THEN MinimalState(user_goal, t) ELSE extract.state
        made == CreateCompressedPrompt(state, KanbanState(kanban), comp.compression_count)
        cause == IF made.raised THEN "create_compressed_prompt"
                 ELSE IF ~created THEN "GenerativeModel"
                 ELSE "none"
    IN  [ raised |-> cause # "none", cause |-> cause, extract |-> extract,
          compressor |-> IF cause # "none" THEN comp
                         ELSE [ comp EXCEPT !.current_state = [ some |-> TRUE, state |-> state ] ],
          sessions |-> IF cause # "none" THEN sess
                       ELSE Append(sess, Session(made.prompt, sess[chat].tools,
                                                 sess[chat].generation_config,
                                                 sess[chat].safety_settings)),
          new_chat |-> IF cause # "none" THEN 0 ELSE Len(sess) + 1,
          state |-> state ]

\* compress_and_restart that counts the compression and stores the state
\* before it creates the session
CompressAndRestartCountsFirst(comp, sess, chat, user_goal, kanban, summary, created, t) ==
    LET extract == ExtractConversationState(summary, user_goal, t)
        state == IF extract.raised THEN MinimalState(user_goal, t) ELSE extract.state
        made == CreateCompressedPrompt(state, KanbanState(kanban), comp.compression_count)
        cause == IF made.raised THEN "create_compressed_prompt"
                 ELSE IF ~created THEN "GenerativeModel"
                 ELSE "none"
        counted == [ compression_count |-> comp.compression_count + 1,
                     current_state |-> [ some |-> TRUE, state |-> state ] ]
    IN  [ raised |-> cause # "none", cause |-> cause, extract |-> extract,
          compressor |-> IF made.raised THEN comp ELSE counted,
          sessions |-> IF cause # "none" THEN sess
                       ELSE Append(sess, Session(made.prompt, sess[chat].tools,
                                                 sess[chat].generation_config,
                                                 sess[chat].safety_settings)),
          new_chat |-> IF cause # "none" THEN 0 ELSE Len(sess) + 1,
          state |-> state ]

\* compress_and_restart.  kanban is what the dispatcher has for
\* display_current_plan, summary what the summarization call gave, created
\* whether GenerativeModel(...) and start_chat() succeed.  cause names the
\* statement an exception leaves the function from.
CompressAndRestart(comp, sess, chat, user_goal, kanban, summary, created, t) ==
    LET kanban_state == KanbanState(kanban)
        extract == ExtractConversationState(summary, user_goal, t)
        state == IF extract.raised THEN MinimalState(user_goal, t) ELSE extract.state
        made == CreateCompressedPrompt(state, kanban_state, comp.compression_count)
        cause == IF made.raised THEN "create_compressed_prompt"
                 ELSE IF ~created THEN "GenerativeModel"
                 ELSE "none"
    IN  IF cause # "none"
        THEN [ raised |-> TRUE, cause |-> cause, extract |-> extract,
               compressor |-> comp, sessions |-> sess, new_chat |-> 0, state |-> state ]
        ELSE [ raised |-> FALSE, cause |-> cause, extract |-> extract,
               compressor |-> [ compression_count |-> comp.compression_count + 1,
                                current_state |-> [ some |-> TRUE, state |-> state ] ],
               sessions |-> Append(sess, Session(made.prompt, sess[chat].tools,
                                                 sess[chat].generation_config,
                                                 sess[chat].safety_settings)),
               new_chat |-> Len(sess) + 1,
               state |-> state ]

(***************************************************************************)
(* initialize_session_with_kanban_state (context_compression.py).          *)
(*                                                                         *)
(* A dispatcher is None or a dict; what it has for a capability is         *)
(* "absent", or a callable that raises ("raises"), returns None ("none"),  *)
(* returns a text ("text") or a text with "Next Task Ready" in it          *)
(* ("ready").                                                              *)
(***************************************************************************)
Capabilities ==
    <<"initialize_work_session", "display_current_plan", "get_work_context", "get_next_task">>

Outcomes == { "absent", "raises", "none", "text", "ready" }

Dispatcher(is_dict, caps) == [ is_dict |-> is_dict, caps |-> caps ]

\* function_dispatcher=None
NoRegistry == Dispatcher(FALSE, [ c \in { Capabilities[i] : i \in 1..4 } |-> "absent" ])

Dispatchers ==
    { Dispatcher(TRUE, caps) : caps \in [ { Capabilities[i] : i \in 1..4 } -> Outcomes ] }
    \cup { NoRegistry }

Entry(kind, capability) == [ kind |-> kind, capability |-> capability ]

\* the body of the try of one probe: it raises, or gives what it appends
ProbeBody(function_dispatcher, capability) ==
    LET has == function_dispatcher.caps[capability]
    IN  IF ~function_dispatcher.is_dict
        THEN [ raised |-> TRUE, appended |-> <<>> ]
        ELSE IF has = "absent" THEN [ raised |-> FALSE, appended |-> <<>> ]
        ELSE IF has = "raises" THEN [ raised |-> TRUE, appended |-> <<>> ]
        ELSE IF capability # "get_next_task"
             THEN [ raised |-> FALSE, appended |-> <<Entry(has, capability)>> ]
        ELSE IF has = "none" THEN [ raised |-> TRUE, appended |-> <<>> ]
        ELSE IF has = "ready"
             THEN [ raised |-> FALSE, appended |-> <<Entry(has, capability)>> ]
        ELSE [ raised |-> FALSE, appended |-> <<>> ]

\* one probe with its except clause
Probe(function_dispatcher, capability) ==
    LET body == ProbeBody(function_dispatcher, capability)
    IN  IF body.raised THEN <<Entry("error", capability)>> ELSE body.appended

\* the four probes under one try: the first failure ends them
InitializeSessionOneTry(function_dispatcher) ==
    LET b == [ i \in 1..4 |-> ProbeBody(function_dispatcher, Capabilities[i]) ]
        ok == { i \in 1..4 : \A j \in 1..i : ~b[j].raised }
        upto(i) == IF i \in ok THEN b[i].appended ELSE <<>>
    IN  [ raised |-> ok # 1..4,
          startup_context |-> upto(1) \o upto(2) \o upto(3) \o upto(4) ]

\* initialize_session_with_kanban_state: the entries of startup_context
InitializeSessionWithKanbanState(function_dispatcher) ==
    [ raised |-> FALSE,
      startup_context |-> Probe(function_dispatcher, Capabilities[1])
                          \o Probe(function_dispatcher, Capabilities[2])
                          \o Probe(function_dispatcher, Capabilities[3])
                          \o Probe(function_dispatcher, Capabilities[4]) ]

\* before initialize_session_with_kanban_state has run
NoStartup ==
    [ done |-> FALSE, function_dispatcher |-> NoRegistry, raised |-> FALSE,
      startup_context |-> <<>> ]

(***************************************************************************)
(* What the environment supplies.                                          *)
(***************************************************************************)
Meta(p, c) == [ present |-> TRUE, prompt_token_count |-> p, candidates_token_count |-> c ]

Response(meta, has_parts, text_len) ==
    [ some |-> TRUE, usage_metadata |-> meta, has_parts |-> has_parts,
      text_len |-> text_len ]

NoResponse ==
    [ some |-> FALSE, usage_metadata |-> NoMeta, has_parts |-> FALSE, text_len |-> 0 ]

\* the responses of the model: small, filling most of the token window,
\* without usage metadata, with a count left unset, without parts
Responses ==
    { Response(Meta(100, 50), TRUE, 30),
      Response(Meta(700000, 50), TRUE, 30),
      Response(NoMeta, TRUE, 30),
      Response(Meta(None, 50), FALSE, 0) }

\* what is sent: a short prompt, one long enough to serve as a goal, one
\* longer than a goal may be
ContentsFew == { Text("content", 2, 45) }
ContentsCall == { Text("content", 1, 12), Text("content", 2, 45), Text("content", 3, 250) }

\* the seconds a send takes, and the pause of the session loop between calls
Latencies == { 250 }
IdleTimes == { 1, WindowMs }

ObjGood ==
    [ EmptyObject EXCEPT !.user_goal = JV("str", <<1, 2, 3>>),
                         !.current_task_plan = JV("dict", <<1, 2>>),
                         !.completed_tasks = JV("list", <<1, 2, 3, 4, 5, 6, 7>>),
                         !.tool_results_summary = JV("dict", <<1>>),
                         !.current_step = JV("str", <<1>>),
                         !.next_actions = JV("list", <<1, 2, 3, 4>>) ]
ObjBadTasks == [ EmptyObject EXCEPT !.completed_tasks = JV("num", <<5>>) ]
\* every list and the dict of tool results longer than any cap
ObjLong ==
    [ EmptyObject EXCEPT !.completed_tasks = JV("list", <<1, 2, 3, 4, 5, 6, 7>>),
                         !.key_discoveries = JV("list", <<11, 12, 13, 14, 15, 16>>),
                         !.active_context = JV("list", <<21, 22, 23, 24>>),
                         !.tool_results_summary = JV("dict", <<31, 32, 33, 34, 35, 36, 37>>),
                         !.next_actions = JV("list", <<41, 42, 43, 44, 45>>) ]

Summary(kind, obj) == [ kind |-> kind, obj |-> obj ]

\* what the summarization call gives: an error, text that is no JSON, JSON
\* that is no object, an object
SummariesFew ==
    { Summary("call_error", EmptyObject), Summary("object", ObjGood),
      Summary("object", ObjBadTasks) }
SummariesAll ==
    SummariesFew \cup
    { Summary("unparseable", EmptyObject), Summary("non_object", EmptyObject),
      Summary("object", EmptyObject), Summary("object", ObjLong) }

\* what the dispatcher has for display_current_plan
KanbansFew == { "absent", "board" }
KanbansAll == KanbansFew \cup { "no_registry", "raises", "empty_board" }

\* The scenarios: "session" is a session of several calls, "call" one call
\* with every error text, "long" one call with a large max_retries,
\* "compress" a session with every outcome of a compression, "repeat" a
\* session that compresses again and again, "startup" the session
\* initializer alone.
\* max_retries=3, the default of both callers, which start_repl uses
DefaultMaxRetries == 3

RetryChoices ==
    CASE scenario = "long" -> { MaxRetriesLong }
      [] scenario = "call" -> 0..MaxRetriesCall
      [] OTHER -> { DefaultMaxRetries }
ErrTexts ==
    CASE scenario = "call" -> ErrTextsCall
      [] scenario \in {"compress", "repeat"} -> { E_Unavailable }
      [] scenario = "repl" -> { E_Unavailable, E_Invalid }
      [] OTHER -> ErrTextsFew
\* in the compress scenario a reply fills the context or leaves it as it
\* is, in the repeat scenario it fills it
Replies ==
    CASE scenario = "compress"
           -> { Response(Meta(700000, 50), TRUE, 30), Response(Meta(None, 50), FALSE, 0) }
      [] scenario = "repeat" -> { Response(Meta(700000, 50), TRUE, 30) }
      [] scenario = "repl"
           -> { Response(Meta(100, 50), TRUE, 30), Response(Meta(None, 50), FALSE, 0) }
      [] OTHER -> Responses
Idles == IF scenario \in {"compress", "repeat", "repl"} THEN { 1 } ELSE IdleTimes
\* in the compress scenario: too short to serve as a goal, or long enough
ContentsCompress == { Text("content", 1, 12), Text("content", 2, 45) }
Contents ==
    CASE scenario = "call" -> ContentsCall
      [] scenario = "compress" -> ContentsCompress
      [] OTHER -> ContentsFew
Summaries == IF scenario \in {"session", "repeat"} THEN SummariesFew ELSE SummariesAll
Kanbans == IF scenario \in {"session", "repeat"} THEN KanbansFew ELSE KanbansAll
CallLimit ==
    CASE scenario \in {"session", "compress"} -> MaxCalls
      [] scenario = "repeat" -> MaxCallsRepeat
      [] scenario = "startup" -> 0
      [] OTHER -> 1
\* the transport may fail once more
MayFail == scenario \notin {"session", "compress", "repeat", "repl"} \/ nfails < MaxFailures

\* the session start_repl opens
BaseSession == Session(NoPrompt, "TOOLS", "generation_config", "safety_settings")

(***************************************************************************)
(* The call in progress and what is observed of it.                        *)
(***************************************************************************)
NoResult == [ response |-> NoResponse, error |-> NoError, chat |-> 0 ]

NewCall(variant, chat, content, max_retries) ==
    [ pc |-> "idle", variant |-> variant, chat |-> chat, content |-> content,
      max_retries |-> max_retries, attempt |-> 0, delay |-> 0,
      error_str |-> NoText, class |-> "none", depth |-> 0, usage_info |-> NoUsage,
      result |-> NoResult ]

NewObs(chat) ==
    [ sends |-> 0, rl_sleeps |-> 0, backoff_sleeps |-> 0,
      rl_fails |-> 0, server_fails |-> 0, other_fails |-> 0,
      checked |-> FALSE, unchecked_sends |-> 0,
      last_backoff |-> 0, compressions |-> 0, resets |-> 0,
      entry_chat |-> chat, sent_old |-> 0, sends_at_compress |-> 0,
      answer |-> NoResponse,
      summary |-> Summary("none", EmptyObject), kanban |-> "none", created |-> FALSE,
      goal |-> NoGoal, old_estimate |-> 0, cause |-> "none",
      extract |-> [ raised |-> FALSE, state |-> FallbackState(NoGoal, 0) ] ]

\* `return response, error` of safe_api_call
Return(c, response, error) ==
    [ c EXCEPT !.pc = "returned",
               !.result = [ response |-> response, error |-> error, chat |-> 0 ] ]

\* `return response, error, chat` of enhanced_safe_api_call
EnhReturn(c, response, error) ==
    [ c EXCEPT !.pc = "returned",
               !.result = [ response |-> response, error |-> error, chat |-> c.chat ] ]

MaxRetriesExceeded == [ msg |-> "Max retries exceeded", attempts |-> 0, text |-> NoText ]

\* the head of `for attempt in range(max_retries)` at the first iteration
EnterLoop(c) ==
    IF c.max_retries = 0 THEN Return(c, NoResponse, MaxRetriesExceeded)
    ELSE [ c EXCEPT !.pc = "wait", !.attempt = 0 ]

EnhEnterLoop(c) ==
    IF c.max_retries = 0 THEN EnhReturn(c, NoResponse, MaxRetriesExceeded)
    ELSE [ c EXCEPT !.pc = "e_throttle", !.attempt = 0 ]

\* `continue` of a loop that does not count its iterations
NextIterationUncounted(c) ==
    [ c EXCEPT !.pc = "wait", !.delay = 0, !.error_str = NoText, !.class = "none" ]

\* `continue`: the head of the loop at the next iteration
NextIteration(c) ==
    IF c.attempt + 1 < c.max_retries
    THEN [ c EXCEPT !.pc = "wait", !.attempt = @ + 1, !.delay = 0,
                    !.error_str = NoText, !.class = "none" ]
    ELSE Return(c, NoResponse, MaxRetriesExceeded)

\* `continue` that goes back to the compression check
EnhNextIterationRechecks(c) ==
    IF c.attempt + 1 < c.max_retries
    THEN [ c EXCEPT !.pc = "e_entry", !.attempt = @ + 1, !.delay = 0,
                    !.error_str = NoText ]
    ELSE EnhReturn(c, NoResponse, MaxRetriesExceeded)

EnhNextIteration(c) ==
    IF c.attempt + 1 < c.max_retries
    THEN [ c EXCEPT !.pc = "e_throttle", !.attempt = @ + 1, !.delay = 0,
                    !.error_str = NoText ]
    ELSE EnhReturn(c, NoResponse, MaxRetriesExceeded)

\* chat.send_message(content) reaches the session
Sent(sess, chat, content) ==
    [ sess EXCEPT ![chat].nsent = @ + 1, ![chat].last = content ]

\* the observation of one send attempt
ObserveSend(o, chat) ==
    [ o EXCEPT !.sends = @ + 1,
               !.unchecked_sends = IF o.checked THEN @ ELSE @ + 1,
               !.checked = FALSE,
               !.sent_old = IF o.compressions > 0 /\ chat = o.entry_chat
                            THEN @ + 1 ELSE @ ]

\* the class of an error text by the tests of safe_api_call, in their order
ErrorClass(error_str) ==
    IF ErrorFacts[error_str].rate_limit THEN "rate_limit"
    ELSE IF ErrorFacts[error_str].server THEN "server"
    ELSE "other"

ObserveFailure(o, error_str) ==
    [ o EXCEPT !.rl_fails = IF ErrorClass(error_str) = "rate_limit" THEN @ + 1 ELSE @,
               !.server_fails = IF ErrorClass(error_str) = "server" THEN @ + 1 ELSE @,
               !.other_fails = IF ErrorClass(error_str) = "other" THEN @ + 1 ELSE @ ]

ObserveSleep(o, c) ==
    [ o EXCEPT !.rl_sleeps = IF c.class = "rate_limit" THEN @ + 1 ELSE @,
               !.backoff_sleeps = IF c.class # "rate_limit" THEN @ + 1 ELSE @,
               !.last_backoff = IF c.class # "rate_limit" THEN c.delay ELSE @ ]

(***************************************************************************)
(* safe_api_call (repl.py).                                                *)
(***************************************************************************)
\* the session loop calls safe_api_call(chat, content, max_retries)
StartSafeApiCall ==
    /\ call.pc = "idle"
    /\ ncalls < CallLimit
    /\ now < MaxTime
    /\ \E content \in Contents, max_retries \in RetryChoices, idle \in Idles :
         /\ now' = now + idle
         /\ call' = EnterLoop(NewCall("plain", call.chat, content, max_retries))
    /\ obs' = NewObs(call.chat)
    /\ UNCHANGED <<rate_limiter, token_tracker, tracker, compressor, sessions,
                   ncalls, nfails, scenario, startup,
                   decision, usage_log, repl>>

\* rate_limiter.wait_if_needed(), the sleep included
WaitIfNeeded ==
    /\ call.pc = "wait"
    /\ LET r == WaitIfNeededResult(rate_limiter, now)
       IN  /\ rate_limiter' = r.rl
           /\ now' = now + r.slept
    /\ call' = [ call EXCEPT !.pc = "send" ]
    /\ obs' = [ obs EXCEPT !.checked = TRUE ]
    /\ UNCHANGED <<token_tracker, tracker, compressor, sessions, ncalls, nfails, scenario, startup,
                   decision, usage_log, repl>>

\* chat.send_message(content) answers: track_usage, return response
SendSucceeds ==
    /\ call.pc = "send"
    /\ \E response \in Replies, latency \in Latencies :
         LET t == now + latency
             u == TrackUsage(token_tracker, rate_limiter, response, t)
         IN  /\ now' = t
             /\ token_tracker' = u.tt
             /\ rate_limiter' = u.rl
             /\ call' = [ Return(call, response, NoError) EXCEPT !.usage_info = u.info ]
             /\ obs' = [ ObserveSend(obs, call.chat) EXCEPT !.answer = response ]
    /\ sessions' = Sent(sessions, call.chat, call.content)
    /\ UNCHANGED <<tracker, compressor, ncalls, nfails, scenario, startup,
                   decision, usage_log, repl>>

\* chat.send_message(content) raises: the except clause
SendFails ==
    /\ call.pc = "send"
    /\ MayFail
    /\ nfails' = nfails + 1
    /\ \E error_str \in ErrTexts, jitter \in Jitters, latency \in Latencies :
         LET h == HandleError(error_str, call.attempt, call.max_retries, jitter)
         IN  /\ now' = now + latency
             /\ call' = IF h.next = "sleep"
                        THEN [ call EXCEPT !.pc = "backoff", !.delay = h.delay,
                                           !.error_str = error_str, !.class = h.class ]
                        ELSE [ Return(call, NoResponse, h.error)
                                 EXCEPT !.error_str = error_str, !.class = h.class ]
             /\ obs' = ObserveFailure(ObserveSend(obs, call.chat), error_str)
    /\ sessions' = Sent(sessions, call.chat, call.content)
    /\ UNCHANGED <<rate_limiter, token_tracker, tracker, compressor, ncalls, scenario, startup,
                   decision, usage_log, repl>>

\* time.sleep(retry_delay) or time.sleep(delay), then `continue`
RetrySleep ==
    /\ call.pc = "backoff"
    /\ now' = now + call.delay
    /\ call' = NextIteration(call)
    /\ obs' = ObserveSleep(obs, call)
    /\ UNCHANGED <<rate_limiter, token_tracker, tracker, compressor, sessions,
                   ncalls, nfails, scenario, startup,
                   decision, usage_log, repl>>

(***************************************************************************)
(* enhanced_safe_api_call (context_compression.py).                        *)
(***************************************************************************)
\* the basic throttling sleep before each send, in milliseconds
BasicThrottle == 100

\* the except clause of enhanced_safe_api_call: what the loop does next
EnhHandleError(error_str, attempt, max_retries, jitter) ==
    IF attempt < max_retries - 1
    THEN [ next |-> "sleep", delay |-> ExponentialBackoff(attempt, jitter),
           error |-> NoError ]
    ELSE [ next |-> "return", delay |-> 0,
           error |-> [ msg |-> "str(e)", attempts |-> 0, text |-> error_str ] ]

\* tokens_used of a response
TokensUsed(response) ==
    IF response.usage_metadata.present
    THEN OrZero(response.usage_metadata.prompt_token_count)
         + OrZero(response.usage_metadata.candidates_token_count)
    ELSE 0

\* the reset with the token total left standing
ResetTrackerKeepsTokens(tr) ==
    AddMessage([ NewTracker EXCEPT !.actual_tokens_used = tr.actual_tokens_used ],
               "system", CompressedNote(GetContextEstimate(tr)), 0)

\* the reset with the old messages left in the list
ResetTrackerKeepsMessages(tr) ==
    AddMessage([ tr EXCEPT !.total_chars = 0, !.actual_tokens_used = 0 ],
               "system", CompressedNote(GetContextEstimate(tr)), 0)

\* the tracker after the compression: emptied, then the note added
ResetTracker(tr) == AddMessage(NewTracker, "system", CompressedNote(GetContextEstimate(tr)), 0)

\* the session loop calls enhanced_safe_api_call(chat, content, ...)
StartEnhancedCall ==
    /\ call.pc = "idle"
    /\ ncalls < CallLimit
    /\ now < MaxTime
    /\ \E content \in Contents, max_retries \in RetryChoices, idle \in Idles :
         /\ now' = now + idle
         /\ call' = [ NewCall("enhanced", call.chat, content, max_retries)
                        EXCEPT !.pc = "e_entry" ]
    /\ obs' = NewObs(call.chat)
    /\ UNCHANGED <<rate_limiter, token_tracker, tracker, compressor, sessions,
                   ncalls, nfails, scenario, startup,
                   decision, usage_log, repl>>

\* the body of enhanced_safe_api_call down to the loop: the compression check,
\* compress_and_restart, the tracker reset and the nested call, or else the
\* tracking of the outgoing message
EnhEntry ==
    /\ call.pc = "e_entry"
    /\ IF ShouldCompress(tracker, DefaultThreshold)
       THEN \E kanban \in Kanbans, summary \in Summaries, created \in BOOLEAN :
              LET r == CompressAndRestart(compressor, sessions, call.chat,
                                          ExtractUserGoal(tracker.messages),
                                          kanban, summary, created, now)
                  seen == [ obs EXCEPT !.compressions = @ + 1,
                                       !.summary = summary, !.kanban = kanban,
                                       !.created = created,
                                       !.goal = ExtractUserGoal(tracker.messages),
                                       !.old_estimate = GetContextEstimate(tracker),
                                       !.cause = r.cause, !.extract = r.extract ]
              IN  IF r.raised
                  THEN /\ compressor' = r.compressor
                       /\ sessions' = r.sessions
                       /\ call' = [ call EXCEPT !.pc = "raised" ]
                       /\ obs' = seen
                       /\ UNCHANGED tracker
                  ELSE /\ compressor' = r.compressor
                       /\ sessions' = r.sessions
                       /\ tracker' = ResetTracker(tracker)
                       /\ call' = [ call EXCEPT !.chat = r.new_chat, !.depth = @ + 1 ]
                       /\ obs' = [ seen EXCEPT !.resets = @ + 1,
                                               !.sends_at_compress = obs.sends ]
       ELSE /\ tracker' = AddMessage(tracker, "user", call.content, 0)
            /\ call' = EnhEnterLoop(call)
            /\ UNCHANGED <<compressor, sessions, obs>>
    /\ UNCHANGED <<now, rate_limiter, token_tracker, ncalls, nfails, scenario, startup,
                   decision, usage_log, repl>>

\* time.sleep(0.1)
EnhThrottle ==
    /\ call.pc = "e_throttle"
    /\ now' = now + BasicThrottle
    /\ call' = [ call EXCEPT !.pc = "e_send" ]
    /\ UNCHANGED <<rate_limiter, token_tracker, tracker, compressor, sessions,
                   obs, ncalls, nfails, scenario, startup,
                   decision, usage_log, repl>>

\* chat.send_message(content) answers: the reply is tracked and returned
EnhSendSucceeds ==
    /\ call.pc = "e_send"
    /\ \E response \in Replies, latency \in Latencies :
         /\ now' = now + latency
         /\ tracker' = IF response.has_parts
                       THEN AddMessage(tracker, "assistant",
                                       Text("reply", 0, response.text_len),
                                       TokensUsed(response))
                       ELSE tracker
         /\ call' = EnhReturn(call, response, NoError)
         /\ obs' = [ ObserveSend(obs, call.chat) EXCEPT !.answer = response ]
    /\ sessions' = Sent(sessions, call.chat, call.content)
    /\ UNCHANGED <<rate_limiter, token_tracker, compressor, ncalls, nfails, scenario, startup,
                   decision, usage_log, repl>>

\* chat.send_message(content) raises: the except clause
EnhSendFails ==
    /\ call.pc = "e_send"
    /\ MayFail
    /\ nfails' = nfails + 1
    /\ \E error_str \in ErrTexts, jitter \in Jitters, latency \in Latencies :
         LET h == EnhHandleError(error_str, call.attempt, call.max_retries, jitter)
         IN  /\ now' = now + latency
             /\ call' = IF h.next = "sleep"
                        THEN [ call EXCEPT !.pc = "e_backoff", !.delay = h.delay,
                                           !.error_str = error_str ]
                        ELSE [ EnhReturn(call, NoResponse, h.error)
                                 EXCEPT !.error_str = error_str ]
             /\ obs' = ObserveFailure(ObserveSend(obs, call.chat), error_str)
    /\ sessions' = Sent(sessions, call.chat, call.content)
    /\ UNCHANGED <<rate_limiter, token_tracker, tracker, compressor, ncalls, scenario, startup,
                   decision, usage_log, repl>>

\* time.sleep(delay), then `continue`
EnhRetrySleep ==
    /\ call.pc = "e_backoff"
    /\ now' = now + call.delay
    /\ call' = EnhNextIteration(call)
    /\ obs' = ObserveSleep(obs, call)
    /\ UNCHANGED <<rate_limiter, token_tracker, tracker, compressor, sessions,
                   ncalls, nfails, scenario, startup,
                   decision, usage_log, repl>>

\* the caller takes the result and keeps the session handle it was given;
\* the next call may start
Finish ==
    /\ call.pc \in {"returned", "raised"}
    /\ call' = NewCall("none", call.chat, NoGoal, 0)
    /\ ncalls' = ncalls + 1
    /\ obs' = NewObs(call.chat)
    /\ UNCHANGED <<now, rate_limiter, token_tracker, tracker, compressor, sessions,
                   nfails, scenario, startup,
                   decision, usage_log, repl>>

(***************************************************************************)
(* What is kept of the calls made on the limiter, on the token tracker and *)
(* of the session loop.                                                    *)
(***************************************************************************)
NoOutcome ==
    [ kind |-> "none", estimated_tokens |-> 0, limit |-> FALSE, reason |-> "none",
      wait |-> 0, slept |-> 0 ]

\* no call on the limiter was made yet
NoDecision ==
    [ kind |-> "none", steps |-> 0, called |-> 0, at |-> 0, estimated_tokens |-> 0,
      limit |-> FALSE, reason |-> "none", wait |-> 0, slept |-> 0,
      before |-> NewRateLimiter, after |-> NewRateLimiter, prev |-> NoOutcome ]

\* what a decision shows to the call that follows it
OutcomeOf(d) ==
    [ kind |-> d.kind, estimated_tokens |-> d.estimated_tokens, limit |-> d.limit,
      reason |-> d.reason, wait |-> d.wait, slept |-> d.slept ]

\* start_repl before the first prompt: where the loop is, the iterations
\* done, the rounds of function calls so far, how the loop was left,
\* the response in hand, the function responses of the round, and counts of
\* what happened
NewRepl ==
    [ pc |-> "prompt", turns |-> 0, rounds |-> 0, exit |-> "none",
      response |-> NoResponse, function_responses |-> <<>>,
      errors |-> 0, tool_errors |-> 0, unexpected |-> 0, interrupts |-> 0 ]

InitState ==
    /\ now = StartTime
    /\ rate_limiter = NewRateLimiter
    /\ token_tracker = NewTokenTracker
    /\ tracker = NewTracker
    /\ compressor = NewCompressor
    /\ sessions = <<BaseSession>>
    /\ call = NewCall("none", 1, NoGoal, 0)
    /\ obs = NewObs(1)
    /\ ncalls = 0
    /\ nfails = 0
    /\ startup = NoStartup
    /\ decision = NoDecision
    /\ usage_log = <<>>
    /\ repl = NewRepl

\* initialize_session_with_kanban_state(function_dispatcher) runs
InitializeSession ==
    /\ scenario = "startup"
    /\ ~startup.done
    /\ \E function_dispatcher \in Dispatchers :
         LET r == InitializeSessionWithKanbanState(function_dispatcher)
         IN  startup' = [ done |-> TRUE, function_dispatcher |-> function_dispatcher,
                          raised |-> r.raised, startup_context |-> r.startup_context ]
    /\ UNCHANGED <<now, rate_limiter, token_tracker, tracker, compressor, sessions,
                   call, obs, ncalls, nfails, scenario, decision, usage_log, repl>>

Init == InitState /\ scenario = "session"
InitCall == InitState /\ scenario = "call"
InitLong == InitState /\ scenario = "long"

Next ==
    \/ StartSafeApiCall
    \/ WaitIfNeeded
    \/ SendSucceeds
    \/ SendFails
    \/ RetrySleep
    \/ StartEnhancedCall
    \/ EnhEntry
    \/ EnhThrottle
    \/ EnhSendSucceeds
    \/ EnhSendFails
    \/ EnhRetrySleep
    \/ Finish

Spec == Init /\ [][Next]_vars
SpecCall == InitCall /\ [][Next]_vars
SpecLong == InitLong /\ [][Next]_vars

\* a step of the call in progress: the process does not stop inside
\* safe_api_call, and every send is answered or fails
CallStep == WaitIfNeeded \/ SendSucceeds \/ SendFails \/ RetrySleep
SpecCallFair == InitCall /\ [][Next]_vars /\ WF_vars(CallStep)

\* The tracker scenario: add_message with any arguments, and the reset of
\* enhanced_safe_api_call, in any order.
\* lengths of content: empty, and the two around three times the threshold
ContentLens == { 0, 3 * DefaultThreshold + 2, 3 * DefaultThreshold + 3 }
\* token counts: none, and counts that sum to the threshold and around it
TokenCounts == { 0, 1000, DefaultThreshold - 1000, DefaultThreshold + 1000 }
Roles == { "user", "assistant" }
\* the callers give a token count with the replies only
TokensOf(role) == IF role = "assistant" THEN TokenCounts ELSE { 0 }

\* tracker.add_message(role, content, token_count=token_count)
TrackerAddMessage ==
    /\ scenario = "tracker"
    /\ Len(tracker.messages) < MaxMessages
    /\ \E role \in Roles, len \in ContentLens :
         \E token_count \in TokensOf(role) :
           tracker' = AddMessage(tracker, role, Text("content", 0, len), token_count)
    /\ UNCHANGED <<now, rate_limiter, token_tracker, compressor, sessions,
                   call, obs, ncalls, nfails, scenario, startup,
                   decision, usage_log, repl>>

\* the reset of the tracker after a compression
TrackerReset ==
    /\ scenario = "tracker"
    /\ ShouldCompress(tracker, DefaultThreshold)
    /\ tracker' = ResetTracker(tracker)
    /\ UNCHANGED <<now, rate_limiter, token_tracker, compressor, sessions,
                   call, obs, ncalls, nfails, scenario, startup,
                   decision, usage_log, repl>>

InitTracker == InitState /\ scenario = "tracker"
NextTracker == TrackerAddMessage \/ TrackerReset
SpecTracker == InitTracker /\ [][NextTracker]_vars

\* a session that compresses once or several times, or the session initializer
InitCompress == InitState /\ scenario \in {"compress", "repeat", "startup"}
NextCompress ==
    \/ StartEnhancedCall
    \/ EnhEntry
    \/ EnhThrottle
    \/ EnhSendSucceeds
    \/ EnhSendFails
    \/ EnhRetrySleep
    \/ Finish
    \/ InitializeSession
SpecCompress == InitCompress /\ [][NextCompress]_vars

(***************************************************************************)
(* Properties of safe_api_call.                                            *)
(***************************************************************************)
Plain == call.variant = "plain"
Enhanced == call.variant = "enhanced"
RetrySleeps == obs.rl_sleeps + obs.backoff_sleeps
\* the last send of the call in progress raised
Raised == call.error_str # NoText
InRateLimitClass(e) ==
    Contains(e, S_429) \/ Contains(Lower(e), S_quota) \/ Contains(Lower(e), S_rate)
InTransientClass(e) ==
    Contains(e, S_503) \/ Contains(e, S_502) \/ Contains(Lower(e), S_server)

\* C1: in safe_api_call, once a send has raised an error whose text is in
\* neither the rate-limit class nor the transient class, the call has
\* returned that error: it was the call's last send, no sleep followed it
\* (every sleep of the call lies between two sends), and there is no
\* response, whatever max_retries is.
C1_NonRetryableReturnsAtOnce ==
    (Plain /\ Raised /\ ~InRateLimitClass(call.error_str)
           /\ ~InTransientClass(call.error_str))
    => /\ call.pc = "returned"
       /\ ~call.result.response.some
       /\ call.result.error.msg = "API error"
       /\ call.result.error.text = call.error_str
       /\ obs.other_fails = 1
       /\ obs.sends = call.attempt + 1
       /\ RetrySleeps = obs.sends - 1

\* a first attempt with retries left raised a non-retryable error
C1_Witness ==
    /\ Plain /\ Raised /\ ~InRateLimitClass(call.error_str)
    /\ ~InTransientClass(call.error_str)
    /\ call.attempt = 0 /\ call.max_retries = 3 /\ call.pc = "returned"

\* every send of the call so far failed with a rate-limit-class error
AllRateLimited == obs.sends >= 1 /\ obs.rl_fails = obs.sends

\* C2: if every send of one safe_api_call fails with a rate-limit-class
\* error, the call makes exactly max_retries sends, takes the rate-limit path
\* at each, sleeps once between consecutive sends and never after the last,
\* and returns the rate-limit-exceeded error with no response.
C2_RateLimitExhaustion ==
    (Plain /\ AllRateLimited)
    => /\ obs.sends <= call.max_retries
       /\ obs.backoff_sleeps = 0
       /\ call.pc \in {"wait", "send"} => obs.rl_sleeps = obs.sends
       /\ call.pc = "backoff" => (obs.rl_sleeps = obs.sends - 1 /\ call.class = "rate_limit")
       /\ call.pc = "returned"
            => /\ obs.sends = call.max_retries
               /\ obs.rl_sleeps = call.max_retries - 1
               /\ ~call.result.response.some
               /\ call.result.error.msg = "Rate limit exceeded after N attempts"
               /\ call.result.error.attempts = call.max_retries

\* three rate-limited sends of a call with max_retries = 3
C2_Witness ==
    /\ Plain /\ AllRateLimited /\ call.pc = "returned"
    /\ obs.sends = 3 /\ obs.rl_sleeps = 2

\* C3: if the first k sends of one safe_api_call fail with an error the
\* call classifies as transient (k < max_retries) and send k+1 succeeds, the
\* call has slept k times, each a backoff, has made k+1 sends, and returns
\* the response of send k+1 with no error; if all max_retries sends fail so,
\* it returns the server error that names max_retries.
C3_TransientRetry ==
    /\ (Plain /\ call.pc = "returned" /\ call.result.response.some
              /\ obs.server_fails = obs.sends - 1)
       => /\ obs.backoff_sleeps = obs.server_fails
          /\ obs.rl_sleeps = 0
          /\ obs.sends <= call.max_retries
          /\ call.result.response = obs.answer
          /\ call.result.error = NoError
    /\ (Plain /\ call.pc = "returned" /\ obs.sends >= 1
              /\ obs.server_fails = obs.sends)
       => /\ obs.sends = call.max_retries
          /\ obs.backoff_sleeps = call.max_retries - 1
          /\ ~call.result.response.some
          /\ call.result.error.msg = "Server error after N attempts"
          /\ call.result.error.attempts = call.max_retries

\* two transient failures, then success on the third attempt
C3_Witness ==
    /\ Plain /\ call.pc = "returned" /\ call.result.response.some
    /\ obs.server_fails = 2 /\ obs.sends = 3 /\ obs.backoff_sleeps = 2
    /\ call.max_retries = 3

\* the delay of the backoff about to be slept is the capped exponential
BackoffPending == Plain /\ call.pc = "backoff" /\ call.class = "server"
BackoffFormula ==
    \E jitter \in 0..999 :
        call.delay = Min(base_delay * Pow2(call.attempt) + jitter, max_delay)

\* C4 as claimed: the delay is min(base*2^a + jitter, 60), never above 60
\* seconds, and larger than the previous backoff delay of the call.
C4_StrictlyIncreasing ==
    BackoffPending
    => /\ BackoffFormula
       /\ call.delay <= max_delay
       /\ obs.last_backoff > 0 => call.delay > obs.last_backoff

\* C4 amended: the delay is min(base*2^a + jitter, 60), never above 60
\* seconds, never smaller than the previous backoff delay of the call, and
\* larger than it unless both are the cap of 60 seconds.
C4_IncreasingUpToCap ==
    BackoffPending
    => /\ BackoffFormula
       /\ call.delay <= max_delay
       /\ obs.last_backoff > 0
            => /\ call.delay >= obs.last_backoff
               /\ (call.delay = obs.last_backoff
                     => (call.delay = max_delay /\ call.attempt >= 6))

\* a capped backoff after an uncapped one
C4_Witness ==
    /\ BackoffPending /\ call.delay = max_delay
    /\ obs.last_backoff > 0 /\ obs.last_backoff < max_delay

\* the rate-limit sleep about to be slept
RateLimitSleepPending == Plain /\ call.pc = "backoff" /\ call.class = "rate_limit"

\* C5 as claimed: the sleep is N seconds whenever the text holds a hint
\* "seconds: N", and the default 60 seconds exactly when it holds none.
C5_HintAlwaysParsed ==
    RateLimitSleepPending
    => /\ HasHint(call.error_str) => call.delay = HintValue(call.error_str) * 1000
       /\ (call.delay = default_retry_delay * 1000) <=> ~HasHint(call.error_str)

\* C5 amended: the sleep is N seconds when the text contains "retry_delay"
\* and a hint "seconds: N" (the leftmost one), and the default 60 seconds in
\* every other case.
C5_HintParsedAfterRetryDelay ==
    RateLimitSleepPending
    => call.delay =
         IF Contains(call.error_str, S_retry_delay) /\ HasHint(call.error_str)
         THEN HintValue(call.error_str) * 1000
         ELSE default_retry_delay * 1000

\* a text with "retry_delay" and two hints: the leftmost, 12 seconds, is slept
C5_Witness ==
    /\ RateLimitSleepPending /\ call.error_str = E_TwoHints /\ call.delay = 12000

(***************************************************************************)
(* Properties of the two callers together.                                 *)
(***************************************************************************)
\* C6: in both callers every send is preceded by a wait_if_needed check
\* made after the previous attempt resolved: no send goes unchecked.
C6_EverySendChecked == obs.unchecked_sends = 0

\* C7: in enhanced_safe_api_call, once a send has raised an error whose text
\* is in neither the rate-limit class nor the transient class, the call has
\* returned it: no retry sleep follows and no further send is made.
C7_EnhancedNonRetryableReturnsAtOnce ==
    (Enhanced /\ Raised /\ ~InRateLimitClass(call.error_str)
              /\ ~InTransientClass(call.error_str))
    => /\ call.pc = "returned"
       /\ obs.other_fails = 1
       /\ RetrySleeps = obs.sends - 1

\* the count x, with None read as 0
CountOf(x) == IF x = None THEN 0 ELSE x

\* a send of safe_api_call answers with usage metadata
AnsweredWithUsage ==
    /\ Plain /\ call.pc = "send" /\ call'.pc = "returned"
    /\ call'.result.response.some
    /\ call'.result.response.usage_metadata.present

\* C8: a send of safe_api_call that answers with usage metadata folds in
\* exactly one usage record before the return: the conversation count grows
\* by 1, the input and output totals by the prompt and candidate counts, one
\* timestamp and one entry of input+output tokens are appended to the window
\* of the rate limiter, and last_request_time is the time of the return; a
\* send that raises changes neither the tracker nor the limiter.
C8_OneUsageRecordPerSuccess ==
    [][ /\ AnsweredWithUsage
          => LET m == call'.result.response.usage_metadata
                 i == CountOf(m.prompt_token_count)
                 o == CountOf(m.candidates_token_count)
             IN  /\ token_tracker'.conversation_count = token_tracker.conversation_count + 1
                 /\ token_tracker'.total_input_tokens = token_tracker.total_input_tokens + i
                 /\ token_tracker'.total_output_tokens = token_tracker.total_output_tokens + o
                 /\ rate_limiter'.request_times = Append(rate_limiter.request_times, now')
                 /\ rate_limiter'.token_usage_history
                      = Append(rate_limiter.token_usage_history, <<now', i + o>>)
                 /\ rate_limiter'.last_request_time = now'
                 /\ call'.usage_info.some
                 /\ call'.usage_info.total_tokens = i + o
        /\ (Plain /\ call.pc = "send" /\ call'.error_str # NoText)
          => (token_tracker' = token_tracker /\ rate_limiter' = rate_limiter)
      ]_vars

\* the second answered call of a session, its first send having raised
C8_Witness ==
    /\ Plain /\ call.pc = "returned" /\ call.usage_info.some
    /\ token_tracker.conversation_count = 2
    /\ Len(rate_limiter.token_usage_history) = 2
    /\ obs.sends = 2

\* C9: track_usage on a response without usage metadata returns no record
\* and leaves the token totals, the total cost, the conversation count, the
\* window of the rate limiter and last_request_time as they were.
C9_NoMetadataNoUsage ==
    [][ (/\ Plain /\ call.pc = "send" /\ call'.pc = "returned"
         /\ call'.result.response.some
         /\ ~call'.result.response.usage_metadata.present)
        => /\ ~call'.usage_info.some
           /\ token_tracker' = token_tracker
           /\ rate_limiter' = rate_limiter
      ]_vars

\* an answer without metadata after one with metadata was recorded
C9_Witness ==
    /\ Plain /\ call.pc = "returned" /\ call.result.response.some
    /\ ~call.result.response.usage_metadata.present
    /\ token_tracker.conversation_count = 1
    /\ rate_limiter.last_request_time > 0

\* C10: an enhanced call that finds should_compress true at entry runs
\* compress_and_restart once and no second time, the nested entry never
\* finding should_compress true; when the compression returns, the tracker
\* is reset once, every send of the call goes to the new session and none
\* to the old one, the content sent is the content given, and the session
\* handle returned is the new one.
C10_OneCompressionThenNewSession ==
    Enhanced
    => /\ obs.compressions <= 1
       /\ (call.pc = "e_entry" /\ call.depth >= 1)
            => ~ShouldCompress(tracker, DefaultThreshold)
       /\ (obs.compressions = 1 /\ call.pc # "raised")
            => /\ obs.resets = 1
               /\ call.depth = 1
               /\ call.chat = Len(sessions)
               /\ call.chat # obs.entry_chat
               /\ obs.sent_old = 0
               /\ sessions[call.chat].nsent = obs.sends
               /\ obs.sends >= 1 => sessions[call.chat].last = call.content
               /\ call.pc = "returned"
                    => /\ call.result.chat = call.chat
                       /\ call.max_retries >= 1 => obs.sends >= 1

\* a compressed call that was answered by the new session
C10_Witness ==
    /\ Enhanced /\ call.pc = "returned" /\ obs.compressions = 1
    /\ call.result.response.some /\ call.result.chat = 2
    /\ sessions[1].nsent >= 1 /\ sessions[2].nsent = obs.sends

(***************************************************************************)
(* Properties of the conversation tracker and the compressor.              *)
(***************************************************************************)
\* compress_and_restart has returned, the tracker is reset and the nested
\* call is about to begin
AfterCompression == Enhanced /\ call.pc = "e_entry" /\ call.depth >= 1

\* C11: right after the compression step of an enhanced call, before the
\* nested call has done anything, the tracker holds exactly one message: a
\* "system" note that states the estimate found before the compression (an
\* estimate above the threshold); actual_tokens_used is 0, total_chars is the
\* length of that note, and get_context_estimate is a third of that length,
\* the length being that of the fixed text plus the digits of the estimate.
C11_TrackerResetAndSeeded ==
    AfterCompression
    => /\ Len(tracker.messages) = 1
       /\ tracker.messages[1].role = "system"
       /\ tracker.messages[1].content.kind = "compressed"
       /\ tracker.messages[1].content.arg = obs.old_estimate
       /\ obs.old_estimate > DefaultThreshold
       /\ tracker.messages[1].token_count = 0
       /\ tracker.actual_tokens_used = 0
       /\ tracker.total_chars = tracker.messages[1].char_count
       /\ tracker.messages[1].char_count
            = CompressedPrefixLen + CommaLen(obs.old_estimate) + CompressedSuffixLen
       /\ GetContextEstimate(tracker) = tracker.messages[1].char_count \div 3
       /\ GetContextEstimate(tracker) < GoalMinLen

\* the second compression of a session: the tracker, holding the note of the
\* first compression and a reply of 700,050 tokens, was reset again
C11_Witness ==
    /\ AfterCompression /\ compressor.compression_count = 2
    /\ Len(tracker.messages) = 1 /\ tracker.messages[1].content.arg = 700050

\* the positive token counts recorded in the messages, summed
RECURSIVE PositiveTokens(_)
PositiveTokens(ms) ==
    IF ms = <<>> THEN 0
    ELSE (IF Head(ms).token_count > 0 THEN Head(ms).token_count ELSE 0)
         + PositiveTokens(Tail(ms))

\* the characters of the messages, counted
RECURSIVE CharsOf(_)
CharsOf(ms) == IF ms = <<>> THEN 0 ELSE Head(ms).content.len + CharsOf(Tail(ms))

\* thresholds should_compress is asked about
Thresholds == { 0, DefaultThreshold - 1000, DefaultThreshold, DefaultThreshold + 1000 }

\* C12: whatever was added since the last reset, get_context_estimate is the
\* sum of the positive token counts of the messages when that sum is not 0,
\* and otherwise the characters of the messages divided by 3, rounded down;
\* should_compress(threshold) is true exactly when the estimate is strictly
\* greater than the threshold.
C12_EstimateAndThreshold ==
    LET tokens == PositiveTokens(tracker.messages)
        chars == CharsOf(tracker.messages)
        estimate == IF tokens # 0 THEN tokens ELSE chars \div 3
    IN  /\ GetContextEstimate(tracker) = estimate
        /\ \A threshold \in Thresholds :
             ShouldCompress(tracker, threshold) <=> estimate > threshold

\* two messages whose token counts sum to the threshold exactly: not over it
C12_Witness ==
    /\ scenario = "tracker" /\ Len(tracker.messages) = 2
    /\ tracker.messages[1].token_count = DefaultThreshold - 1000
    /\ tracker.messages[2].token_count = 1000
    /\ GetContextEstimate(tracker) = DefaultThreshold
    /\ ~ShouldCompress(tracker, DefaultThreshold)

\* the summarization call gave no structured object
ExtractionFailed == obs.summary.kind \in {"call_error", "unparseable", "non_object"}

\* the enhanced call in progress has run compress_and_restart
Compressed == Enhanced /\ obs.compressions >= 1

\* C13: extract_conversation_state never raises; when the summarization call
\* raises, or its text is no JSON, or the JSON is no object, the state it
\* returns has the goal the caller supplied, or "Continue previous work" when
\* the caller supplied none, the step "Resuming after compression", no plan,
\* and empty lists and an empty dict in its other fields.
C13_ExtractionFallsBack ==
    Compressed
    => /\ ~obs.extract.raised
       /\ ExtractionFailed
            => LET state == obs.extract.state
               IN  /\ state.user_goal
                        = IF obs.goal.kind = "none"
                          THEN Goal("continue", Missing, NoGoal)
                          ELSE Goal("caller", Missing, obs.goal)
                   /\ state.current_step = Goal("resuming", Missing, NoGoal)
                   /\ state.current_task_plan = JNull
                   /\ state.completed_tasks = EmptyList
                   /\ state.key_discoveries = EmptyList
                   /\ state.active_context = EmptyList
                   /\ state.tool_results_summary = EmptyDict
                   /\ state.next_actions = EmptyList

\* an unparseable summary and no goal to supply: the fallback state was used
\* and the turn was answered
C13_Witness ==
    /\ Compressed /\ obs.summary.kind = "unparseable" /\ obs.goal.kind = "none"
    /\ obs.extract.state.user_goal.src = "continue"
    /\ call.pc = "returned" /\ call.result.response.some

\* C14: whatever the summarization call gives (an error, text that is no
\* JSON, JSON that is no object, an object with fields missing or of
\* unexpected types), no exception caused by the extracted state leaves
\* compress_and_restart: the enhanced call is never ended by an exception of
\* create_compressed_prompt.
C14_ExtractionFailureNeverSurfaced ==
    Compressed => obs.cause # "create_compressed_prompt"

\* the compressed prompts of the sessions opened so far
CompressedPrompts ==
    { sessions[i].system_instruction : i \in { j \in 1..Len(sessions) : j > 1 } }

\* the largest of the caps create_compressed_prompt applies to a list
LargestCap == Max(Max(TaskCap, DiscoveryCap), Max(ContextCap, ActionCap))

\* C15: the number of entries create_compressed_prompt renders does not grow
\* with the number of items fed in: of the completed tasks, key discoveries,
\* active context and next actions it renders no more than the cap of the
\* field, and of the tool-result summaries no more than the largest cap,
\* however many the state holds.
C15_RenderedEntriesCapped ==
    \A prompt \in CompressedPrompts :
        /\ Len(prompt.completed) <= TaskCap
        /\ Len(prompt.discoveries) <= DiscoveryCap
        /\ Len(prompt.active) <= ContextCap
        /\ Len(prompt.next) <= ActionCap
        /\ Len(prompt.tools) <= LargestCap

\* the last n items of a list, in order
LastItems(items, n) == SubSeq(items, Len(items) - Min(n, Len(items)) + 1, Len(items))

\* what a field of the state should render as when the most recent items are
\* the ones kept
MostRecent(v, n) == IF Truthy(v) THEN LastItems(v.items, n) ELSE <<>>

\* compress_and_restart has returned to the enhanced call in progress
CompressionReturned == Compressed /\ obs.cause = "none"

\* C16: of a list field of the state that holds more items than its cap,
\* create_compressed_prompt renders the last cap items in order, the oldest
\* ones being dropped.
C16_MostRecentItemsKept ==
    CompressionReturned
    => LET state == obs.extract.state
           prompt == sessions[call.chat].system_instruction
       IN  /\ prompt.completed = MostRecent(state.completed_tasks, TaskCap)
           /\ prompt.discoveries = MostRecent(state.key_discoveries, DiscoveryCap)
           /\ prompt.active = MostRecent(state.active_context, ContextCap)
           /\ prompt.next = MostRecent(state.next_actions, ActionCap)

\* a step in which compress_and_restart returns: it opens a session
CompressionReturns == Len(sessions') = Len(sessions) + 1

\* C17: compression_count never decreases and grows by one compression at a
\* time: a step changes it exactly when compress_and_restart returns, then
\* by exactly 1, storing the state of that compression as current_state;
\* at all times it is the number of compress_and_restart calls that have
\* returned, and the prompt of the k-th of them carries the number k.
C17_CounterCountsCompressions ==
    [][ /\ compressor'.compression_count
             = compressor.compression_count + (IF CompressionReturns THEN 1 ELSE 0)
        /\ CompressionReturns
             => /\ compressor'.current_state
                     = [ some |-> TRUE, state |-> obs'.extract.state ]
                /\ sessions'[Len(sessions')].system_instruction.number
                     = compressor'.compression_count
        /\ ~CompressionReturns => compressor'.current_state = compressor.current_state
        /\ compressor'.compression_count = Len(sessions') - 1
        /\ \A k \in 1..(Len(sessions') - 1) :
             sessions'[k + 1].system_instruction.number = k
      ]_vars

\* the second compression of a session has returned and its call was answered
C17_Witness ==
    /\ compressor.compression_count = 2 /\ Len(sessions) = 3
    /\ sessions[2].system_instruction.number = 1
    /\ sessions[3].system_instruction.number = 2
    /\ compressor.current_state.some
    /\ Compressed /\ call.pc = "returned"

\* a step in which the enhanced call gets a session back from
\* compress_and_restart and resets the tracker
CompressionStep == obs'.resets = obs.resets + 1

\* C18: when compress_and_restart returns, the session it returns is a new
\* one with nothing sent to it, its tools, generation config and safety
\* settings are those of the session it was given, its system instruction is
\* the compressed prompt made from the extracted state, and the session it
\* was given, like every other session, is as it was.
C18_NewSessionOldUntouched ==
    [][ CompressionStep
        => LET old == sessions[call.chat]
               new == sessions'[call'.chat]
           IN  /\ Len(sessions') = Len(sessions) + 1
               /\ call'.chat = Len(sessions')
               /\ \A i \in 1..Len(sessions) : sessions'[i] = sessions[i]
               /\ new.tools = old.tools
               /\ new.generation_config = old.generation_config
               /\ new.safety_settings = old.safety_settings
               /\ new.nsent = 0
               /\ new.system_instruction.kind = "compressed"
               /\ new.system_instruction.session_id = obs'.extract.state.session_id
               /\ new.system_instruction.user_goal = obs'.extract.state.user_goal
               /\ new.system_instruction.current_step = obs'.extract.state.current_step
      ]_vars

\* a session that had answered a call was compressed: it keeps what was sent
\* to it, and the new session has had the content of the compressing call
C18_Witness ==
    /\ CompressionReturned /\ call.pc = "returned"
    /\ Len(sessions) = 2 /\ call.chat = 2
    /\ sessions[1].nsent >= 1 /\ sessions[1].system_instruction.kind = "base"
    /\ sessions[2].system_instruction.kind = "compressed"
    /\ sessions[2].tools = sessions[1].tools

\* the summary is an object one of whose fields create_compressed_prompt
\* cannot render
IllTyped(summary) ==
    /\ summary.kind = "object"
    /\ \/ DictUseRaises(summary.obj.current_task_plan)
       \/ SliceRaises(summary.obj.completed_tasks)
       \/ SliceRaises(summary.obj.key_discoveries)
       \/ DictUseRaises(summary.obj.tool_results_summary)
       \/ SliceRaises(summary.obj.active_context)
       \/ SliceRaises(summary.obj.next_actions)

\* the entries of startup_context that come from one capability
EntriesOf(capability) ==
    SelectSeq(startup.startup_context, LAMBDA e : e.capability = capability)

\* what one probe of the session initializer owes to its own capability
OwnEntries(function_dispatcher, capability) ==
    LET has == function_dispatcher.caps[capability]
    IN  IF ~function_dispatcher.is_dict \/ has = "raises"
        THEN <<Entry("error", capability)>>
        ELSE IF has = "absent" THEN <<>>
        ELSE IF capability = "get_next_task"
             THEN CASE has = "ready" -> <<Entry("ready", capability)>>
                    [] has = "none" -> <<Entry("error", capability)>>
                    [] OTHER -> <<>>
        ELSE <<Entry(has, capability)>>

\* C19: the capabilities of the dispatcher are best-effort.  Whether
\* display_current_plan is absent, there is no dispatcher, the capability
\* raises or it returns a board, compress_and_restart returns a new session
\* whenever the session can be created and the summary can be rendered, and
\* the board is in the prompt only when the capability returned one (and
\* always when it returned a non-empty one).  The session initializer never
\* raises, and what each of its four probes adds to the startup context
\* depends on its own capability alone, in the order of the probes, whatever
\* the other capabilities do.
C19_CapabilitiesBestEffort ==
    /\ Compressed
         => /\ (obs.created /\ ~IllTyped(obs.summary)) => obs.cause = "none"
            /\ obs.cause = "none"
                 => LET prompt == sessions[call.chat].system_instruction
                    IN  /\ prompt.kanban # NoGoal => obs.kanban = "board"
                        /\ obs.kanban = "board" => prompt.kanban = Text("board", 0, BoardLen)
    /\ startup.done
         => /\ ~startup.raised
            /\ \A i \in 1..4 :
                 EntriesOf(Capabilities[i])
                   = OwnEntries(startup.function_dispatcher, Capabilities[i])
            /\ startup.startup_context
                 = EntriesOf(Capabilities[1]) \o EntriesOf(Capabilities[2])
                   \o EntriesOf(Capabilities[3]) \o EntriesOf(Capabilities[4])

\* display_current_plan raised during a compression, and the call was
\* answered by the new session, whose prompt has no board
C19_Witness ==
    /\ Compressed /\ obs.kanban = "raises" /\ obs.cause = "none"
    /\ call.pc = "returned" /\ call.result.response.some
    /\ sessions[call.chat].system_instruction.kanban = NoGoal

\* the initializer ran with a dispatcher whose first capability raises and
\* whose last returns a ready task
C19_StartupReached ==
    /\ startup.done
    /\ startup.function_dispatcher.caps["initialize_work_session"] = "raises"
    /\ startup.function_dispatcher.caps["get_next_task"] = "ready"
    /\ Len(startup.startup_context) = 2

(***************************************************************************)
(* Properties of the rate limiter.                                         *)
(***************************************************************************)
\* a step of wait_if_needed: should_rate_limit is evaluated at time now
RateLimitAccess == call.pc = "wait" /\ call'.pc = "send"

\* estimates should_rate_limit may be asked about
EstimatedTokens == { 0, 700000, max_tokens_per_minute }

MaxMeterRequests == 66
\* calls and pauses of one behaviour of the limiter scenario
MaxMeterSteps == 2
\* milliseconds between two of the recorded requests
MeterGap == 400
\* tokens of one recorded request: none, 1% and 2% of the limit
MeterTokens == { 0, max_tokens_per_minute \div 100, max_tokens_per_minute \div 50 }
\* the estimates a caller passes
MeterEstimates == { 0, max_tokens_per_minute \div 5 }
\* pauses between calls: a moment, and more than half of the window
MeterPauses == { MeterGap, 35000 }

\* the limiter after n calls of record_request(k), MeterGap apart, the last
\* one at t
Loaded(n, k, t) ==
    [ request_times |-> [ i \in 1..n |-> t - (n - i) * MeterGap ],
      token_usage_history |-> [ i \in 1..n |-> <<t - (n - i) * MeterGap, k>> ],
      last_request_time |-> IF n = 0 THEN 0 ELSE t ]

\* the outcome of the call before, when it was made at this instant on the
\* limiter as it is now
Previous == IF decision.kind # "none" /\ decision.at = now /\ decision.after = rate_limiter
            THEN OutcomeOf(decision) ELSE NoOutcome

\* rate_limiter.should_rate_limit(estimated_tokens)
MeterQuery ==
    /\ scenario = "meter"
    /\ decision.steps < MaxMeterSteps
    /\ \E estimated_tokens \in MeterEstimates :
         \E d \in { ShouldRateLimit(rate_limiter, now, estimated_tokens) } :
             /\ rate_limiter' = d.rl
             /\ decision' = [ kind |-> "query", steps |-> decision.steps + 1,
                              called |-> now, at |-> now,
                              estimated_tokens |-> estimated_tokens,
                              limit |-> d.limit, reason |-> d.reason, wait |-> d.wait,
                              slept |-> 0, before |-> rate_limiter, after |-> d.rl,
                              prev |-> Previous ]
    /\ UNCHANGED <<now, token_tracker, tracker, compressor, sessions, call, obs,
                   ncalls, nfails, scenario, startup, usage_log, repl>>

\* rate_limiter.wait_if_needed(), the sleep included
MeterWait ==
    /\ scenario = "meter"
    /\ decision.steps < MaxMeterSteps
    /\ \E r \in { WaitIfNeededResult(rate_limiter, now) } :
           /\ rate_limiter' = r.rl
           /\ now' = now + r.slept
           /\ decision' = [ kind |-> "wait", steps |-> decision.steps + 1,
                            called |-> now, at |-> now + r.slept,
                            estimated_tokens |-> 0,
                            limit |-> r.limited, reason |-> "none", wait |-> r.slept,
                            slept |-> r.slept, before |-> rate_limiter, after |-> r.rl,
                            prev |-> Previous ]
    /\ UNCHANGED <<token_tracker, tracker, compressor, sessions, call, obs,
                   ncalls, nfails, scenario, startup, usage_log, repl>>

\* rate_limiter.record_request(token_count)
MeterRecord ==
    /\ scenario = "meter"
    /\ decision.steps < MaxMeterSteps
    /\ \E token_count \in { max_tokens_per_minute \div 50 } :
         rate_limiter' = RecordRequest(rate_limiter, now, token_count)
    /\ decision' = [ NoDecision EXCEPT !.steps = decision.steps + 1 ]
    /\ UNCHANGED <<now, token_tracker, tracker, compressor, sessions, call, obs,
                   ncalls, nfails, scenario, startup, usage_log, repl>>

\* time passes between two calls
MeterPause ==
    /\ scenario = "meter"
    /\ decision.steps < MaxMeterSteps
    /\ \E pause \in MeterPauses : now' = now + pause
    /\ decision' = [ decision EXCEPT !.steps = @ + 1 ]
    /\ UNCHANGED <<rate_limiter, token_tracker, tracker, compressor, sessions, call,
                   obs, ncalls, nfails, scenario, startup, usage_log, repl>>

InitMeter ==
    /\ scenario = "meter"
    /\ now = StartTime
    /\ \E n \in 0..MaxMeterRequests, k \in MeterTokens :
         rate_limiter = Loaded(n, k, StartTime)
    /\ token_tracker = NewTokenTracker
    /\ tracker = NewTracker
    /\ compressor = NewCompressor
    /\ sessions = <<BaseSession>>
    /\ call = NewCall("none", 1, NoGoal, 0)
    /\ obs = NewObs(1)
    /\ ncalls = 0
    /\ nfails = 0
    /\ startup = NoStartup
    /\ decision = NoDecision
    /\ usage_log = <<>>
    /\ repl = NewRepl
NextMeter == MeterQuery \/ MeterWait \/ MeterRecord \/ MeterPause
SpecMeter == InitMeter /\ [][NextMeter]_vars

(***************************************************************************)
(* The token tracker alone: track_usage with any response and model name.  *)
(***************************************************************************)
\* calls of track_usage in one behaviour of the usage scenario
MaxTracked == 3
\* the model names passed: the default one, and one PRICING does not hold
ModelNames == { DefaultModel, "gemini-unknown" }

\* token_tracker.track_usage(response, model_name)
UsageTrack ==
    /\ scenario = "usage"
    /\ Len(usage_log) < MaxTracked
    /\ \E response \in Responses, model_name \in ModelNames, latency \in Latencies :
         LET u == TrackUsageModel(token_tracker, rate_limiter, response, now + latency,
                                  model_name)
         IN  /\ now' = now + latency
             /\ token_tracker' = u.tt
             /\ rate_limiter' = u.rl
             /\ usage_log' = Append(usage_log, [ model_name |-> model_name,
                                                 response |-> response, info |-> u.info ])
    /\ UNCHANGED <<tracker, compressor, sessions, call, obs, ncalls, nfails, scenario,
                   startup, decision, repl>>

InitUsage == InitState /\ scenario = "usage"
NextUsage == UsageTrack
SpecUsage == InitUsage /\ [][NextUsage]_vars

(***************************************************************************)
(* Properties of the adaptive delay and of the decision.                   *)
(***************************************************************************)
\* the requests of the last 60 seconds a call at time t sees
WindowRequests(rl, t) ==
    Cardinality({ i \in 1..Len(rl.request_times) : t - rl.request_times[i] < WindowMs })

\* the tokens of the last 60 seconds a call at time t sees
RECURSIVE TokensSince(_, _, _)
TokensSince(h, t, i) ==
    IF i = 0 THEN 0
    ELSE TokensSince(h, t, i - 1) + IF t - h[i][1] < WindowMs THEN h[i][2] ELSE 0
WindowTokens(rl, t) == TokensSince(rl.token_usage_history, t, Len(rl.token_usage_history))

RECURSIVE GCD(_, _)
GCD(a, b) == IF b = 0 THEN a ELSE GCD(b, a % b)

\* w is num / den rounded down
FloorOf(w, num, den) == den * w <= num /\ num < den * (w + 1)

\* the delay w, in milliseconds, lies on the curve at the ratio n / d:
\* nothing below 0.66, from 0 to 0.5 seconds over [0.66, 0.80), from 0.5 to
\* 2.0 seconds over [0.80, 0.90), and 2.0 + ((r - 0.90) / 0.10)^2 * 8.0
\* seconds from 0.90 on
OnCurveAt(n, d, w) ==
    /\ 100 * n < 66 * d => w = 0
    /\ 66 * d <= 100 * n /\ 100 * n < 80 * d
         => FloorOf(w, 500 * (100 * n - 66 * d), 14 * d)
    /\ 80 * d <= 100 * n /\ 100 * n < 90 * d
         => FloorOf(w - 500, 1500 * (10 * n - 8 * d), d)
    /\ 90 * d <= 100 * n
         => FloorOf(w - 2000, 8000 * (10 * n - 9 * d) * (10 * n - 9 * d), d * d)
    /\ 5 * n = 4 * d => w = 500
    /\ 10 * n = 9 * d => w = 2000
    /\ n = d => w = 10000
    /\ n > d => w > 10000

\* the ratio current_usage / max_limit in lowest terms
OnCurve(current_usage, max_limit, w) ==
    LET g == GCD(current_usage, max_limit)
    IN  OnCurveAt(current_usage \div g, max_limit \div g, w)

\* what the decision saw: the requests and the projected tokens of the window
SeenRequests == WindowRequests(decision.before, decision.called)
SeenTokens == WindowTokens(decision.before, decision.called) + decision.estimated_tokens

SeenRequestWait == CalculateAdaptiveInterval(SeenRequests, max_requests_per_minute)
SeenTokenWait == CalculateAdaptiveInterval(SeenTokens, max_tokens_per_minute)
SeenElapsed == decision.called - decision.before.last_request_time

\* C24: should_rate_limit takes as required wait the larger of the delay of
\* the request ratio and the delay of the token ratio, the tokens being those
\* of the window plus the estimate; it throttles exactly when the time since
\* the last recorded request is less than the required wait, the wait being
\* the rest of it and the reason naming the tokens when their delay is the
\* larger and the requests otherwise; else it does not throttle and the wait
\* is 0.
C24_DecisionFromLargerDelay ==
    decision.kind = "query"
      => LET request_wait == SeenRequestWait
             token_wait == SeenTokenWait
             required_wait == IF request_wait >= token_wait
                              THEN request_wait ELSE token_wait
         IN  /\ decision.limit <=> SeenElapsed < required_wait
             /\ decision.limit
                  => /\ decision.wait = required_wait - SeenElapsed
                     /\ decision.reason = IF token_wait > request_wait
                                          THEN "tokens" ELSE "requests"
             /\ ~decision.limit => decision.wait = 0 /\ decision.reason = "none"

\* a throttled call where both ratios ask for a delay and the tokens for more
C24_Witness ==
    /\ decision.kind = "query"
    /\ decision.limit
    /\ decision.reason = "tokens"
    /\ SeenRequestWait > 0
    /\ SeenTokenWait > SeenRequestWait

\* tokens added to the estimate to raise the token ratio
MoreTokens == { 1, max_tokens_per_minute \div 50, 140000, 340000 }

\* the limiter with n more requests in its window, the last recorded request
\* where it was
Busier(rl, t, n) ==
    [ rl EXCEPT !.request_times = @ \o [ i \in 1..n |-> t ] ]

\* C25: for a fixed time since the last request, the wait of the decision
\* does not go down when the usage ratio goes up, of the requests or of the
\* tokens: there is no downward jump at 0.66, 0.80 or 0.90.
C25_WaitMonotone ==
    decision.kind = "query"
      => /\ \A more \in MoreTokens :
              ShouldRateLimit(decision.before, decision.called,
                              decision.estimated_tokens + more).wait >= decision.wait
         /\ \A n \in 1..2 :
              ShouldRateLimit(Busier(decision.before, decision.called, n),
                              decision.called, decision.estimated_tokens).wait
                >= decision.wait

\* a throttled call one request below 80% of the request limit
C25_Witness ==
    /\ decision.kind = "query"
    /\ decision.limit
    /\ decision.reason = "requests"
    /\ 5 * (SeenRequests + 1) = 4 * max_requests_per_minute

\* the entries of a list of times younger than 60 seconds at time t
Younger(ts, t) == SelectSeq(ts, LAMBDA x : t - x < WindowMs)
YoungerTokens(h, t) == SelectSeq(h, LAMBDA e : t - e[1] < WindowMs)

\* C26: should_rate_limit is a query: it leaves last_request_time and every
\* entry younger than 60 seconds as they were, and a second call with the
\* same estimate at the same instant, no request recorded in between,
\* returns the same decision.
C26_QueryWithoutEffect ==
    decision.kind = "query"
      => /\ decision.after.last_request_time = decision.before.last_request_time
         /\ decision.after.request_times
              = Younger(decision.before.request_times, decision.called)
         /\ decision.after.token_usage_history
              = YoungerTokens(decision.before.token_usage_history, decision.called)
         /\ decision.prev.kind = "query"
              /\ decision.prev.estimated_tokens = decision.estimated_tokens
              => /\ decision.limit = decision.prev.limit
                 /\ decision.reason = decision.prev.reason
                 /\ decision.wait = decision.prev.wait

\* the second of two throttled calls with the same estimate
C26_Witness ==
    /\ decision.kind = "query"
    /\ decision.prev.kind = "query"
    /\ decision.prev.estimated_tokens = decision.estimated_tokens
    /\ decision.limit
    /\ decision.wait > 0

\* C29: once wait_if_needed has slept the wait it was told, a call of
\* should_rate_limit(0) at that moment, no request recorded in between, does
\* not throttle.
C29_AdmittedAfterWait ==
    decision.kind = "query" /\ decision.prev.kind = "wait"
      /\ decision.estimated_tokens = 0
      => ~decision.limit /\ decision.wait = 0

\* a call of should_rate_limit(0) right after wait_if_needed has slept
C29_Witness ==
    /\ decision.kind = "query"
    /\ decision.prev.kind = "wait"
    /\ decision.prev.slept > 0
    /\ decision.estimated_tokens = 0
    /\ ~decision.limit

(***************************************************************************)
(* Properties of the token tracker.                                        *)
(***************************************************************************)
\* a count of the usage metadata, an unset count read as 0
Reported(count) == IF count = None THEN 0 ELSE count

\* the sum of the costs the first i calls of track_usage returned
RECURSIVE CostsReturned(_, _)
CostsReturned(log, i) ==
    IF i = 0 THEN 0
    ELSE CostsReturned(log, i - 1) + IF log[i].info.some THEN log[i].info.total_cost ELSE 0

\* C22: track_usage computes the cost as input tokens / 1e6 times the input
\* price plus output tokens / 1e6 times the output price, with the default
\* pricing entry (0.075 and 0.30 dollars per million) when the model name is
\* unknown; at 0.15 and 0.60 per million, 100 input and 50 output tokens cost
\* 0.000045; and the accumulated total cost is the sum of the costs the calls
\* returned.  Costs are in 1e-9 dollars.
C22_CostFromTokensAndPrices ==
    /\ \A i \in 1..Len(usage_log) :
         LET e == usage_log[i]
         IN  e.info.some
               => e.info.total_cost
                    = Reported(e.response.usage_metadata.prompt_token_count) * 75
                      + Reported(e.response.usage_metadata.candidates_token_count) * 300
    /\ token_tracker.total_cost = CostsReturned(usage_log, Len(usage_log))
    /\ Cost(100, 50, [ input_tokens_per_million |-> 150,
                       output_tokens_per_million |-> 600 ]).total_cost = 45000

\* two calls have returned a cost, the last one for a model name that
\* PRICING does not hold
C22_Witness ==
    /\ Len(usage_log) >= 2
    /\ usage_log[1].info.some
    /\ LET e == usage_log[Len(usage_log)]
       IN  /\ e.model_name \notin DOMAIN PRICING
           /\ e.info.some
           /\ e.info.input_tokens = 100
           /\ e.info.output_tokens = 50
           /\ e.info.total_cost = 22500
    /\ token_tracker.total_cost > 22500

(***************************************************************************)
(* Properties of the retry loops and of a failed compression.              *)
(***************************************************************************)
\* C27: compression never starts in the middle of the retries: within one
\* enhanced call the compression check and compress_and_restart come before
\* the first send attempt; once a send attempt was made there is no
\* compression, no reset of the tracker and no other session until the call
\* has returned.
C27_NoCompressionMidRetry ==
    [][ /\ Enhanced' /\ obs'.resets >= 1 => obs'.sends_at_compress = 0
        /\ Enhanced /\ obs.sends >= 1 /\ obs'.sends >= 1
             => /\ call'.pc # "e_entry"
                /\ obs'.compressions = obs.compressions
                /\ obs'.resets = obs.resets
                /\ compressor' = compressor
                /\ Len(sessions') = Len(sessions)
                /\ call'.chat = call.chat
                /\ Len(tracker'.messages) >= Len(tracker.messages) ]_vars

\* an enhanced call that compressed, then had a send fail and the retry
\* answered
C27_Witness ==
    /\ Enhanced
    /\ call.pc = "returned"
    /\ obs.compressions = 1
    /\ obs.resets = 1
    /\ obs.sends >= 2
    /\ call.result.response.some

\* compress_and_restart is left by the exception of GenerativeModel(...) or
\* start_chat()
SessionCreationFails ==
    call.pc = "e_entry" /\ call'.pc = "raised" /\ obs'.cause = "GenerativeModel"

\* C30: when compress_and_restart fails while it creates the new session,
\* nothing is changed: compression_count and current_state keep their
\* values, the tracker is not reset, and the enhanced call sends nothing to
\* any session.
C30_FailedCompressionChangesNothing ==
    [][ /\ SessionCreationFails
             => /\ compressor' = compressor
                /\ tracker' = tracker
                /\ sessions' = sessions
                /\ obs'.resets = obs.resets
                /\ obs'.sends = 0
        /\ call.pc = "raised"
             => /\ sessions' = sessions
                /\ tracker' = tracker
                /\ compressor' = compressor
                /\ call'.pc \in { "raised", "idle" } ]_vars

\* the session could not be created for the second compression
C30_Witness ==
    /\ call.pc = "raised"
    /\ obs.cause = "GenerativeModel"
    /\ compressor.compression_count = 1
    /\ compressor.current_state.some
    /\ obs.sends = 0
    /\ ShouldCompress(tracker, DefaultThreshold)

\* C28: whatever the sends do, rate-limit and transient errors mixed (they
\* share the attempts), one safe_api_call makes at most max_retries send
\* attempts and at most max_retries - 1 retry sleeps, ends, and returns
\* either a response or an error message, never both and never neither; with
\* max_retries = 0 it sends nothing and returns an error.
C28_BoundedAndTerminates ==
    /\ [](Plain => /\ obs.sends <= call.max_retries
                   /\ RetrySleeps <= Max(call.max_retries - 1, 0)
                   /\ call.pc = "returned"
                        => call.result.response.some <=> call.result.error = NoError
                   /\ call.max_retries = 0
                        => /\ call.pc = "returned"
                           /\ obs.sends = 0
                           /\ call.result.error # NoError)
    /\ (Plain /\ call.pc # "returned") ~> (Plain /\ call.pc = "returned")

\* a call that used all of its three attempts on a rate-limit error and on
\* transient errors, slept twice and returned an error
C28_Witness ==
    /\ Plain
    /\ call.pc = "returned"
    /\ call.max_retries = 3
    /\ obs.sends = 3
    /\ RetrySleeps = 2
    /\ obs.rl_fails >= 1
    /\ obs.server_fails >= 1
    /\ call.result.error # NoError
    /\ ~call.result.response.some

(***************************************************************************)
(* start_repl (repl.py): the session loop.                                 *)
(***************************************************************************)
\* iterations of the loop in one behaviour of the loop scenario
MaxTurns == 2
\* rounds of function calls the model asks for in one behaviour
MaxToolRounds == 1

\* what the user enters at the prompt: nothing, an exit command, a usage
\* command, end of input, or a prompt for the model
ReplInputs == { "empty", "exit", "usage", "eof", "prompt" }
\* the function calls of a response, each by what the dispatcher does with
\* it: the tool returns, the tool raises, the name is unknown
ToolCalls ==
    { <<>>, <<"returns">>, <<"raises">>, <<"unknown">>, <<"returns", "raises">> }

\* the next iteration of `while True`
NextTurn(r) ==
    [ r EXCEPT !.pc = "prompt", !.turns = @ + 1,
               !.response = NoResponse, !.function_responses = <<>> ]

\* `if error:` after the call for the prompt: the message, then `continue`
OnError(r) == NextTurn([ r EXCEPT !.errors = @ + 1 ])

\* `if error:` after the call for the function responses: the message, then
\* `break` out of the function-call loop with response = None
OnToolCallError(r) ==
    [ r EXCEPT !.pc = "display", !.errors = @ + 1, !.response = NoResponse ]

\* one function call of the response: the result of the tool, the
\* `except Exception` of the dispatch, or the note of an unknown function
RECURSIVE FunctionResponses(_)
FunctionResponses(calls) ==
    IF calls = <<>> THEN <<>>
    ELSE (CASE Head(calls) = "returns" -> << "result" >>
            [] Head(calls) = "raises" -> << "error" >>
            [] OTHER -> <<>>) \o FunctionResponses(Tail(calls))

\* `except Exception` of the loop body that lets the exception through
OnExceptionUncaught(r) == [ r EXCEPT !.pc = "ended", !.exit = "crash", !.unexpected = @ + 1 ]

\* `except Exception as e` of the loop body: the message and the traceback,
\* then the next iteration
OnException(r) == NextTurn([ r EXCEPT !.unexpected = @ + 1 ])

\* `except KeyboardInterrupt`: "Exiting TwinCLI.", then `break`
OnKeyboardInterrupt(r) ==
    [ r EXCEPT !.pc = "ended", !.exit = "interrupt", !.interrupts = @ + 1 ]

\* the prompt is read; the exit commands and end of input leave the loop,
\* an empty line and the usage commands go to the next iteration, anything
\* else goes to safe_api_call(chat, prompt)
ReplRead ==
    /\ scenario = "repl"
    /\ repl.pc = "prompt"
    /\ repl.turns < MaxTurns
    /\ \E input \in ReplInputs, content \in Contents, idle \in Idles :
         /\ now' = now + idle
         /\ CASE input = "eof" ->
                   /\ repl' = [ repl EXCEPT !.pc = "ended", !.exit = "eof" ]
                   /\ UNCHANGED <<call, obs>>
              [] input = "exit" ->
                   /\ repl' = [ repl EXCEPT !.pc = "ended", !.exit = "command" ]
                   /\ UNCHANGED <<call, obs>>
              [] input \in { "empty", "usage" } ->
                   /\ repl' = NextTurn(repl)
                   /\ UNCHANGED <<call, obs>>
              [] OTHER ->
                   /\ repl' = [ repl EXCEPT !.pc = "calling" ]
                   /\ call' = EnterLoop(NewCall("plain", call.chat, content,
                                                DefaultMaxRetries))
                   /\ obs' = NewObs(call.chat)
    /\ UNCHANGED <<rate_limiter, token_tracker, tracker, compressor, sessions,
                   ncalls, nfails, scenario, startup, decision, usage_log>>

\* safe_api_call has returned (response, error) to the loop
ReplCallReturned ==
    /\ scenario = "repl"
    /\ repl.pc \in { "calling", "calling_tools" }
    /\ call.pc = "returned"
    /\ repl' = IF call.result.error # NoError
               THEN IF repl.pc = "calling" THEN OnError(repl) ELSE OnToolCallError(repl)
               ELSE [ repl EXCEPT !.pc = "tools", !.response = call.result.response,
                                  !.function_responses = <<>> ]
    /\ call' = NewCall("none", call.chat, NoGoal, 0)
    /\ ncalls' = ncalls + 1
    /\ UNCHANGED <<now, rate_limiter, token_tracker, tracker, compressor, sessions,
                   obs, nfails, scenario, startup, decision, usage_log>>

\* one pass of the function-call loop: the calls of the response are
\* dispatched, and their responses go to safe_api_call(chat,
\* function_responses); without calls or without responses the loop ends
ReplTools ==
    /\ scenario = "repl"
    /\ repl.pc = "tools"
    /\ \E calls \in ToolCalls :
         /\ calls # <<>> => repl.response.has_parts /\ repl.rounds < MaxToolRounds
         /\ LET function_responses == FunctionResponses(calls)
                dispatched ==
                  [ repl EXCEPT
                      !.function_responses = function_responses,
                      !.tool_errors = @ + Len(SelectSeq(calls, LAMBDA c : c = "raises")) ]
            IN  IF function_responses # <<>>
                THEN /\ repl' = [ dispatched EXCEPT !.pc = "calling_tools",
                                                    !.rounds = @ + 1 ]
                     /\ call' = EnterLoop(NewCall("plain", call.chat,
                                                  Text("function_responses", 0,
                                                       Len(function_responses)),
                                                  DefaultMaxRetries))
                     /\ obs' = NewObs(call.chat)
                ELSE /\ repl' = [ dispatched EXCEPT !.pc = "display" ]
                     /\ UNCHANGED <<call, obs>>
    /\ UNCHANGED <<now, rate_limiter, token_tracker, tracker, compressor, sessions,
                   ncalls, nfails, scenario, startup, decision, usage_log>>

\* the text of the response is printed; the next iteration
ReplDisplay ==
    /\ scenario = "repl"
    /\ repl.pc = "display"
    /\ repl' = NextTurn(repl)
    /\ UNCHANGED <<now, rate_limiter, token_tracker, tracker, compressor, sessions,
                   call, obs, ncalls, nfails, scenario, startup, decision, usage_log>>

\* a statement of the loop body outside safe_api_call and outside the
\* dispatch raises an exception: reading the input, converting the
\* arguments of a function call, printing
ReplUnexpected ==
    /\ scenario = "repl"
    /\ repl.pc \in { "prompt", "tools", "display" }
    /\ repl.turns < MaxTurns
    /\ repl' = OnException(repl)
    /\ UNCHANGED <<now, rate_limiter, token_tracker, tracker, compressor, sessions,
                   call, obs, ncalls, nfails, scenario, startup, decision, usage_log>>

\* the user interrupts, at the prompt or anywhere in the turn
ReplInterrupt ==
    /\ scenario = "repl"
    /\ repl.pc # "ended"
    /\ repl.turns < MaxTurns
    /\ repl' = OnKeyboardInterrupt(repl)
    /\ call' = NewCall("none", call.chat, NoGoal, 0)
    /\ UNCHANGED <<now, rate_limiter, token_tracker, tracker, compressor, sessions,
                   obs, ncalls, nfails, scenario, startup, decision, usage_log>>

InitRepl == InitState /\ scenario = "repl"
NextRepl ==
    \/ ReplRead
    \/ WaitIfNeeded
    \/ SendSucceeds
    \/ SendFails
    \/ RetrySleep
    \/ ReplCallReturned
    \/ ReplTools
    \/ ReplDisplay
    \/ ReplUnexpected
    \/ ReplInterrupt
SpecRepl == InitRepl /\ [][NextRepl]_vars

(***************************************************************************)
(* Properties of the session loop.                                         *)
(***************************************************************************)
\* what a step of the loop met
ErrorReturned == repl'.errors > repl.errors
ToolRaised == repl'.tool_errors > repl.tool_errors
ExceptionRaised == repl'.unexpected > repl.unexpected
Interrupted == repl'.interrupts > repl.interrupts
LoopLeft == repl.pc # "ended" /\ repl'.pc = "ended"

\* the error responses among the function responses of the round
ErrorResponses(r) == Len(SelectSeq(r.function_responses, LAMBDA f : f = "error"))

\* an error result, a tool that raises and an unexpected exception end at
\* most the turn: the error of a tool goes to the model as a function
\* response, the others lead to the next prompt
TurnSurvivesFailures ==
    /\ ErrorReturned => repl'.pc \in { "prompt", "display" }
    /\ repl.pc = "display" /\ ~Interrupted => repl'.pc = "prompt"
    /\ ToolRaised
         => /\ repl'.pc = "calling_tools"
            /\ call'.pc = "wait"
            /\ ErrorResponses(repl') = repl'.tool_errors - repl.tool_errors
    /\ ExceptionRaised => repl'.pc = "prompt"

\* C23 as stated: nothing inside a turn ends the session loop: an error
\* result of the retrying caller, a tool that raises (its error goes to the
\* model as a function response) and any unexpected exception end at most
\* the turn, and the loop reads the next prompt; a user interrupt aborts the
\* turn only; the loop is left only by an explicit exit of the user.
C23_OnlyExitEndsLoop ==
    [][ /\ TurnSurvivesFailures
        /\ Interrupted => repl'.pc = "prompt"
        /\ LoopLeft => repl'.exit \in { "command", "eof" } ]_vars

\* C23, amended: an error result of the retrying caller, a tool that raises
\* (its error goes to the model as a function response) and any unexpected
\* exception end at most the turn, and the loop reads the next prompt; a
\* user interrupt leaves the loop, as an exit command and the end of the
\* input do, and nothing else does.
C23_ExitOrInterruptEndsLoop ==
    [][ /\ TurnSurvivesFailures
        /\ Interrupted => repl'.pc = "ended" /\ repl'.exit = "interrupt"
        /\ LoopLeft => repl'.exit \in { "command", "eof", "interrupt" }
        /\ LoopLeft /\ repl'.exit = "interrupt" => Interrupted
        /\ LoopLeft /\ repl'.exit # "interrupt" => repl.pc = "prompt" ]_vars

\* a turn met a tool that raised and an error result, the loop went on to
\* the next prompt, and an interrupt left it
C23_Witness ==
    /\ repl.pc = "ended"
    /\ repl.exit = "interrupt"
    /\ repl.turns >= 1
    /\ repl.errors >= 1
    /\ repl.tool_errors >= 1
====
